---- MODULE Spec2Model ----
(***************************************************************************)
(* A model of the task store of                                            *)
(* skills/business/task-management/scripts/task_manager.py:                *)
(* three JSON container files (active, backlog, completed), the            *)
(* TaskManager operations on them (_init_files, get_next_id, find_task,    *)
(* add_task, update_task, _update_task_in_file, _move_task,                *)
(* get_all_tasks, _read_json, _write_json) and the command-line            *)
(* invocations that drive them (cmd_create, cmd_update, cmd_complete).     *)
(*                                                                         *)
(* An invocation is one run of the script.  It is modelled as a process    *)
(* whose steps are its file-system operations (one read of a file, one     *)
(* open/truncate of a temp file, one dump+close, one rename); the Python   *)
(* code that runs between two file-system operations is part of the step   *)
(* that precedes it.                                                       *)
(***************************************************************************)
EXTENDS Integers, Sequences, FiniteSets, TLC

(***************************************************************************)
(* Bounds of the model.                                                    *)
(***************************************************************************)
\* the largest number of add_task calls in a run
MaxAdds == 3
\* the largest number of invocations in a sequential run
MaxOps == 3
\* the largest id a caller passes to add_task or update_task
MaxId == 3

\* the invocations that may run at the same time
Procs == {1, 2}

(***************************************************************************)
(* Python values.  A dict is a function from its keys; None is the empty   *)
(* tuple and a value of an optional field is a one-element tuple, so that  *)
(* None compares with every value.                                         *)
(***************************************************************************)
None == <<>>

Some(x) == <<x>>

Has(d, k) == k \in DOMAIN d

Get(d, k, default) == IF k \in DOMAIN d THEN d[k] ELSE default

\* dict.update: the keys of u override those of d
DictUpdate(d, u) == u @@ d

Max2(a, b) == IF a > b THEN a ELSE b

\* str.upper() on the letters a-z
upper(s) ==
  LET lower_case == "abcdefghijklmnopqrstuvwxyz"
      upper_case == "ABCDEFGHIJKLMNOPQRSTUVWXYZ"
      up(ch) ==
        IF \E i \in 1..26 : SubSeq(lower_case, i, i) = ch
        THEN LET i == CHOOSE i \in 1..26 : SubSeq(lower_case, i, i) = ch
             IN SubSeq(upper_case, i, i)
        ELSE ch
      RECURSIVE go(_)
      go(i) == IF i > Len(s) THEN "" ELSE up(SubSeq(s, i, i)) \o go(i + 1)
  IN go(1)

\* sub in s, for two strings
Contains(s, sub) ==
  \E i \in 1..(Len(s) - Len(sub) + 1) : SubSeq(s, i, i + Len(sub) - 1) = sub

active_file == "active"

backlog_file == "backlog"

completed_file == "completed"

Containers == {active_file, backlog_file, completed_file}

\* a slip: the archive is searched first
FileOrder_completed_first == <<completed_file, backlog_file, active_file>>

\* the order in which get_next_id and find_task scan the files
FileOrder == <<active_file, backlog_file, completed_file>>

Statuses == {"pending", "in_progress", "blocked", "backlog", "completed"}

Priorities == {"low", "medium", "high", "critical"}

(***************************************************************************)
(* The content of a file.  "whole" is a complete JSON document holding a   *)
(* container (its version, source and created fields never change and are  *)
(* left out); "empty" is a file that was created or truncated and not yet  *)
(* written; "torn" is a file whose bytes come from two dumps; "absent" is  *)
(* a path that names no file.                                              *)
(***************************************************************************)
Whole(tasks, stamp) == [st |-> "whole", tasks |-> tasks, last_updated |-> stamp]

EmptyFile == [st |-> "empty", tasks |-> <<>>, last_updated |-> 0]

TornFile == [st |-> "torn", tasks |-> <<>>, last_updated |-> 0]

Absent == [st |-> "absent", tasks |-> <<>>, last_updated |-> 0]

VARIABLES
  files,      \* files[c]: the content at the path of container c
  tmp,        \* tmp[c]: the content at the path of c with suffix .tmp
  clock,      \* the next reading of the system clock
  pc,         \* pc[p]: the position of invocation p
  loc,        \* loc[p]: the local variables of invocation p
  nops,       \* the number of invocations begun
  nadds,      \* the number of add_task calls begun
  snap,       \* the files when the latest invocation began
  everAdded   \* the ids of the records an add_task call has stored

vars == <<files, tmp, clock, pc, loc, nops, nadds, snap, everAdded>>

Ids(tasks) == {tasks[i].id : i \in 1..Len(tasks)}

\* the positions of the records of container c with this id
Where(c, id) == {i \in 1..Len(files[c].tasks) : files[c].tasks[i].id = id}

SeqMax(tasks) ==
  LET RECURSIVE go(_, _)
      go(i, m) == IF i > Len(tasks) THEN m
                  ELSE go(i + 1, Max2(m, Get(tasks[i], "id", 0)))
  IN go(1, 0)

(***************************************************************************)
(* add_task, lines 133-160: the stamps, the validation of the required     *)
(* fields and the normalized record.  t0 is the clock when it starts.      *)
(***************************************************************************)
Stamped(task, t0) ==
  LET c == IF Has(task, "created") THEN task ELSE DictUpdate(task, [created |-> t0])
      t1 == IF Has(task, "created") THEN t0 ELSE t0 + 1
      u == IF Has(c, "updated") THEN c ELSE DictUpdate(c, [updated |-> t1])
      t2 == IF Has(c, "updated") THEN t1 ELSE t1 + 1
  IN [task |-> u, clock |-> t2]

\* a slip: the priority is not among the required fields
MissingRequired_without_priority(task) == {"id", "title", "status"} \ DOMAIN task

MissingRequired(task) == {"id", "title", "status", "priority"} \ DOMAIN task

\* lines 147-152: the keys that the normalization reads with task[...]
Subscripted == {"id", "title", "status", "priority", "created", "updated"}

normalized_task(task) ==
  [id |-> task["id"],
   title |-> task["title"],
   status |-> task["status"],
   priority |-> task["priority"],
   created |-> task["created"],
   updated |-> task["updated"],
   completed |-> Get(task, "completed", None),
   source_file |-> Get(task, "source_file", None),
   source_line |-> Get(task, "source_line", None),
   notes |-> Get(task, "notes", None),
   tags |-> Get(task, "tags", <<>>),
   blocked_by |-> Get(task, "blocked_by", None),
   depends_on |-> Get(task, "depends_on", <<>>)]

(***************************************************************************)
(* get_next_id, lines 101-112: the running maximum over one file, and the  *)
(* result once the three files are read.                                   *)
(***************************************************************************)
\* a slip: the maximum starts again with each file
ScanMax_per_file(max_id, tasks) == SeqMax(tasks)

ScanMax(max_id, tasks) == Max2(max_id, SeqMax(tasks))

\* a slip: the highest id is returned, not the one after it
get_next_id_reusing(max_id) == Max2(max_id, 1)

get_next_id(max_id) == max_id + 1

\* a slip: without a match the first record of the file is taken
FirstMatch_or_first(tasks, id) ==
  LET hits == {i \in 1..Len(tasks) : tasks[i].id = id}
  IN IF hits = {} THEN (IF tasks = <<>> THEN 0 ELSE 1)
     ELSE CHOOSE i \in hits : \A j \in hits : i <= j

\* find_task, lines 118-120: the first record of the file with this id
FirstMatch(tasks, id) ==
  LET hits == {i \in 1..Len(tasks) : tasks[i].id = id}
  IN IF hits = {} THEN 0 ELSE CHOOSE i \in hits : \A j \in hits : i <= j

\* find_task, lines 114-122: the files are searched in their order; the
\* result is the first match and its file, or nothing
find_task(task_id) ==
  LET RECURSIVE scan(_)
      scan(fi) ==
        IF fi > Len(FileOrder) THEN [found |-> FALSE]
        ELSE LET c == FileOrder[fi]
                 i == FirstMatch(files[c].tasks, task_id)
             IN IF i # 0
                THEN [found |-> TRUE, task |-> files[c].tasks[i], file |-> c]
                ELSE scan(fi + 1)
  IN scan(1)

(***************************************************************************)
(* update_task, lines 185-194: the target file of a status.                *)
(***************************************************************************)
\* a slip: a blocked task is filed with the backlog
target_file_blocked_in_backlog(status) ==
  IF status = "completed" THEN completed_file
  ELSE IF status \in {"backlog", "blocked"} THEN backlog_file
  ELSE active_file

target_file(status) ==
  IF status = "completed" THEN completed_file
  ELSE IF status = "backlog" THEN backlog_file
  ELSE active_file

\* update_task, lines 189-190: whether the completed stamp is set
\* a slip: the stamp is set only when the key is missing
NeedsCompletedStamp_missing_key_only(task) ==
  task["status"] = "completed" /\ ~Has(task, "completed")

NeedsCompletedStamp(task) ==
  task["status"] = "completed"
    /\ (~Has(task, "completed") \/ task["completed"] = None)

(***************************************************************************)
(* update_task, lines 181-211: the merged, stamped and normalized record.  *)
(* t0 is the clock when it starts.                                         *)
(***************************************************************************)
\* a slip: a completed task is stamped again at every update
Updated_restamped(task, updates, t0) ==
  LET merged == DictUpdate(DictUpdate(task, updates), [updated |-> t0])
      stamp == merged["status"] = "completed"
      full == IF stamp THEN DictUpdate(merged, [completed |-> Some(t0 + 1)])
              ELSE merged
  IN [task |-> normalized_task(full), clock |-> IF stamp THEN t0 + 2 ELSE t0 + 1]

Updated(task, updates, t0) ==
  LET merged == DictUpdate(DictUpdate(task, updates), [updated |-> t0])
      stamp == NeedsCompletedStamp(merged)
      full == IF stamp THEN DictUpdate(merged, [completed |-> Some(t0 + 1)])
              ELSE merged
  IN [task |-> normalized_task(full), clock |-> IF stamp THEN t0 + 2 ELSE t0 + 1]

\* a slip: the record is taken out and put at the end
ReplaceFirst_at_end(tasks, id, updated_task) ==
  LET i == CHOOSE i \in 0..Len(tasks) :
             /\ i # 0 => tasks[i].id = id
             /\ \A j \in 1..Len(tasks) : tasks[j].id = id => (i # 0 /\ i <= j)
  IN IF i = 0 THEN tasks
     ELSE SubSeq(tasks, 1, i - 1) \o SubSeq(tasks, i + 1, Len(tasks))
            \o <<updated_task>>

\* _update_task_in_file, lines 226-229: the first record with the id replaced
ReplaceFirst(tasks, id, updated_task) ==
  LET i == FirstMatch(tasks, id)
  IN IF i = 0 THEN tasks ELSE [tasks EXCEPT ![i] = updated_task]

\* a slip: the copy of the source stops at the record
WithoutId_truncating(tasks, id) ==
  LET RECURSIVE go(_)
      go(i) == IF i > Len(tasks) \/ tasks[i].id = id THEN <<>>
               ELSE <<tasks[i]>> \o go(i + 1)
  IN go(1)

\* a slip: the source keeps the record
WithoutId_kept(tasks, id) == tasks

\* _move_task, line 238: the source without the records of the id
WithoutId(tasks, id) ==
  LET RECURSIVE go(_)
      go(i) == IF i > Len(tasks) THEN <<>>
               ELSE IF tasks[i].id # id THEN <<tasks[i]>> \o go(i + 1)
               ELSE go(i + 1)
  IN go(1)

\* a slip: the record is put before the others
Appended_in_front(tasks, task) == <<task>> \o tasks

\* a slip: the record is not appended
Appended_forgotten(tasks, task) == tasks

\* _move_task, line 243, and add_task, line 166: the record appended
Appended(tasks, task) == Append(tasks, task)

\* a slip: the target is never written
MoveWrites_source_only(source, source_data, target, target_data) ==
  <<[file |-> source, data |-> source_data]>>

\* a slip: the target is written first
MoveWrites_target_first(source, source_data, target, target_data) ==
  <<[file |-> target, data |-> target_data],
    [file |-> source, data |-> source_data]>>

\* _move_task, lines 247-248: the two writes, in the order they are made
MoveWrites(source, source_data, target, target_data) ==
  <<[file |-> source, data |-> source_data],
    [file |-> target, data |-> target_data]>>

(***************************************************************************)
(* The local variables of an invocation.                                   *)
(***************************************************************************)
IdleLoc ==
  [cmd |-> "none",        \* add | update | complete
   task |-> <<>>,         \* the task dict being built
   arg |-> <<>>,          \* add_task: the task dict as the caller passed it
   given |-> FALSE,       \* add_task: whether the caller passed an id
   task_id |-> 0,         \* update_task: the id looked for
   updates |-> <<>>,      \* update_task: the changes
   field |-> <<>>,        \* cmd_update: args.field, None when not given
   value |-> <<>>,        \* cmd_update: args.value, None when not given
   stage |-> "none",      \* complete: "cli" during cmd_complete's own find
   fi |-> 0,              \* the index in FileOrder of the file read next
   max_id |-> 0,          \* get_next_id: the running maximum
   source |-> "none",     \* update_task: source_file
   target |-> "none",     \* target_file
   source_data |-> Absent,  \* _move_task: source_data
   empty_container |-> Absent,  \* _init_files: empty_container
   file_filter |-> <<>>,  \* get_all_tasks: file_filter
   to_read |-> <<>>,      \* get_all_tasks: the files still to read
   all_tasks |-> <<>>,    \* get_all_tasks: all_tasks
   creating |-> FALSE,    \* whether the invocation is cmd_create
   doc |-> <<>>,          \* cmd_create: the lines of the file
   started |-> 0,         \* cmd_create: the clock when it began
   lines |-> <<>>,        \* cmd_create: the lines still to go through
   line_number |-> 0,     \* cmd_create: line_number
   current_priority |-> "none",  \* cmd_create: current_priority
   tasks_created |-> <<>>,  \* cmd_create: id and notes of tasks_created
   tasks_completed |-> <<>>, \* cmd_create: the tasks of the checked lines
   writes |-> <<>>,       \* the _write_json calls still to make
   written |-> 0,         \* the number of _write_json calls that returned
   fd |-> "none",         \* where the file opened by _write_json is now
   err |-> "none",        \* the exception that ended the invocation
   exit |-> 0]            \* the exit code

\* a slip: cmd_update prints the message for a value that is not of the
\* enumeration and returns
exit_code_validation_swallowed(err) ==
  IF err \in {"none", "ValidationError"} THEN 0 ELSE 1

\* the exit code of the script: sys.exit(1) after a message (lines 417,
\* 441, 449, 457, 464, 499, 513, 547, 556), the interpreter's 1 after an
\* exception that nothing catches, 0 when the command returns
exit_code(err) == IF err = "none" THEN 0 ELSE 1

Fail(p, e) ==
  /\ pc' = [pc EXCEPT ![p] = "done"]
  /\ loc' = [loc EXCEPT ![p].err = e, ![p].exit = exit_code(e)]

\* a slip: a file that is no document is read as a container with no task
Readable_lenient(c) == files[c].st # "absent"

\* _read_json, lines 85-88: json.load raises on a file that is no document
Readable(c) == files[c].st = "whole"

(***************************************************************************)
(* add_task, lines 133-143, once the task has its id: stamps, validation,  *)
(* normalization; the next step reads the target file.  t0 is the clock    *)
(* when the stamps are taken.                                              *)
(***************************************************************************)
AddPrepare(p, l, task, t0) ==
  LET s == Stamped(task, t0)
  IN /\ clock' = s.clock
     /\ IF MissingRequired(s.task) # {}
        THEN /\ pc' = [pc EXCEPT ![p] = "done"]
             /\ loc' = [loc EXCEPT ![p] =
                  [l EXCEPT !.task = s.task, !.err = "ValueError",
                            !.exit = exit_code("ValueError")]]
        ELSE IF ~(Subscripted \subseteq DOMAIN s.task)
        THEN /\ pc' = [pc EXCEPT ![p] = "done"]
             /\ loc' = [loc EXCEPT ![p] =
                  [l EXCEPT !.task = s.task, !.err = "KeyError",
                            !.exit = exit_code("KeyError")]]
        ELSE /\ pc' = [pc EXCEPT ![p] = "add_read"]
             /\ loc' = [loc EXCEPT ![p] =
                  [l EXCEPT !.task = normalized_task(s.task)]]

(***************************************************************************)
(* add_task(task, target_file), lines 124-131, as a caller of the library  *)
(* makes it: the invocation begins; with an id in the task get_next_id is  *)
(* not called.  t0 is the clock when add_task is entered.                  *)
(***************************************************************************)
BeginAdd(p, task, target, t0) ==
  /\ pc[p] = "idle"
  /\ nops < MaxOps
  /\ nadds < MaxAdds
  /\ nops' = nops + 1
  /\ nadds' = nadds + 1
  /\ snap' = files
  /\ LET l == [IdleLoc EXCEPT !.cmd = "add", !.task = task, !.arg = task,
                 !.given = Has(task, "id"), !.target = target, !.fi = 1]
     IN IF Has(task, "id")
        THEN AddPrepare(p, l, task, t0)
        ELSE /\ pc' = [pc EXCEPT ![p] = "next_id"]
             /\ loc' = [loc EXCEPT ![p] = l]
             /\ clock' = t0
  /\ UNCHANGED <<files, tmp, everAdded>>

(***************************************************************************)
(* get_next_id, lines 105-112: one file is read; after the third the id    *)
(* is assigned (line 131) and add_task goes on.                            *)
(***************************************************************************)
NextIdRead(p) ==
  /\ pc[p] = "next_id"
  /\ LET l == loc[p]
         c == FileOrder[l.fi]
         m == ScanMax(l.max_id, files[c].tasks)
     IN IF ~Readable(c)
        THEN Fail(p, "JSONDecodeError") /\ clock' = clock
        ELSE IF l.fi < Len(FileOrder)
        THEN /\ loc' = [loc EXCEPT ![p].fi = l.fi + 1, ![p].max_id = m]
             /\ UNCHANGED <<pc, clock>>
        ELSE AddPrepare(p, [l EXCEPT !.max_id = m],
                        DictUpdate(l.task, [id |-> get_next_id(m)]), clock)
  /\ UNCHANGED <<files, tmp, nops, nadds, snap, everAdded>>

(***************************************************************************)
(* add_task, lines 162-167: the target file is read, the record appended   *)
(* and the container restamped; the write follows.                         *)
(***************************************************************************)
AddRead(p) ==
  /\ pc[p] = "add_read"
  /\ LET l == loc[p]
         data == Whole(Appended(files[l.target].tasks, l.task), clock)
     IN IF ~Readable(l.target)
        THEN Fail(p, "JSONDecodeError") /\ clock' = clock
        ELSE /\ pc' = [pc EXCEPT ![p] = "w_open"]
             /\ loc' = [loc EXCEPT ![p].writes =
                          <<[file |-> l.target, data |-> data]>>]
             /\ clock' = clock + 1
  /\ UNCHANGED <<files, tmp, nops, nadds, snap, everAdded>>

(***************************************************************************)
(* _write_json(file_path, data), lines 90-99, in three steps.  The temp    *)
(* path is the file's path with the suffix .tmp: every invocation that     *)
(* writes a container uses the same temp path.                             *)
(*                                                                         *)
(* open(temp_file, 'w'), line 94: creates the temp file or truncates the   *)
(* one that is there.                                                      *)
(***************************************************************************)
WriteOpen(p) ==
  /\ pc[p] = "w_open"
  /\ LET f == Head(loc[p].writes).file
     IN /\ tmp' = [tmp EXCEPT ![f] = EmptyFile]
        /\ loc' = [loc EXCEPT ![p].fd = "tmp"]
        /\ pc' = [pc EXCEPT ![p] = "w_dump"]
  /\ UNCHANGED <<files, clock, nops, nadds, snap, everAdded>>

\* the contents a file may have after a document is written from its start
\* over what the file holds: the document, or the document followed by the
\* rest of a longer one
Overwritten(old, data) ==
  IF old.st = "empty" THEN {data} ELSE {data, TornFile}

(***************************************************************************)
(* json.dump, the newline and the close, lines 95-96: the document goes    *)
(* into the file the descriptor refers to, which is the temp file, or the  *)
(* container's file when another invocation has renamed the temp file      *)
(* meanwhile, or a file with no name any more.                             *)
(***************************************************************************)
WriteDump(p) ==
  /\ pc[p] = "w_dump"
  /\ LET w == Head(loc[p].writes)
         f == w.file
     IN /\ IF loc[p].fd = "tmp"
           THEN /\ \E r \in Overwritten(tmp[f], w.data) :
                     tmp' = [tmp EXCEPT ![f] = r]
                /\ files' = files
           ELSE IF loc[p].fd = "main"
           THEN /\ \E r \in Overwritten(files[f], w.data) :
                     files' = [files EXCEPT ![f] = r]
                /\ tmp' = tmp
           ELSE UNCHANGED <<files, tmp>>
        /\ loc' = [loc EXCEPT ![p].fd = "none"]
        /\ pc' = [pc EXCEPT ![p] = "w_replace"]
  /\ UNCHANGED <<clock, nops, nadds, snap, everAdded>>

\* where an invocation goes on when a _write_json call has returned and
\* the operation that made it has no other write to make: _init_files
\* turns to the next file (line 77), cmd_create records the task of the
\* line (lines 644, 648) and turns to the next line (line 578); the
\* other operations return
Resume(l) ==
  IF l.cmd = "init" /\ l.fi < Len(FileOrder)
  THEN [pc |-> "init_check", loc |-> [l EXCEPT !.fi = l.fi + 1]]
  ELSE IF l.creating
  THEN [pc |-> "create_line",
        loc |-> [l EXCEPT !.tasks_created =
                   IF l.cmd = "add" /\ l.target = active_file
                   THEN Append(@, [id |-> l.task.id, notes |-> None])
                   ELSE @,
                 !.tasks_completed =
                   IF l.cmd = "add" /\ l.target = completed_file
                   THEN Append(@, [id |-> l.task.id])
                   ELSE @]]
  ELSE [pc |-> "done", loc |-> l]

\* the descriptor of another invocation after the temp file of f is renamed
FdAfterRename(q, f) ==
  IF pc[q] = "w_dump" /\ Head(loc[q].writes).file = f
  THEN (IF loc[q].fd = "tmp" THEN "main" ELSE "gone")
  ELSE loc[q].fd

(***************************************************************************)
(* temp_file.replace(file_path), line 99: the rename; it raises when the   *)
(* temp path names no file.  When it was the last write of the operation   *)
(* the invocation ends.                                                    *)
(***************************************************************************)
WriteReplace(p) ==
  /\ pc[p] = "w_replace"
  /\ LET l == loc[p]
         f == Head(l.writes).file
         rest == Tail(l.writes)
     IN IF tmp[f].st = "absent"
        THEN /\ Fail(p, "FileNotFoundError")
             /\ UNCHANGED <<files, tmp, everAdded>>
        ELSE LET l2 == [l EXCEPT !.writes = rest, !.written = l.written + 1]
                 r == IF rest = <<>> THEN Resume(l2)
                      ELSE [pc |-> "w_open", loc |-> l2]
             IN
             /\ files' = [files EXCEPT ![f] = tmp[f]]
             /\ tmp' = [tmp EXCEPT ![f] = Absent]
             /\ loc' = [q \in Procs |->
                  IF q = p THEN r.loc
                  ELSE [loc[q] EXCEPT !.fd = FdAfterRename(q, f)]]
             /\ pc' = [pc EXCEPT ![p] = r.pc]
             /\ everAdded' = IF l.cmd = "add" THEN everAdded \cup {l.task.id}
                             ELSE everAdded
  /\ UNCHANGED <<clock, nops, nadds, snap>>

(***************************************************************************)
(* update_task(task_id, updates), line 176: the invocation begins with     *)
(* find_task.                                                              *)
(***************************************************************************)
BeginUpdate(p, task_id, updates) ==
  /\ pc[p] = "idle"
  /\ nops < MaxOps
  /\ nops' = nops + 1
  /\ snap' = files
  /\ loc' = [loc EXCEPT ![p] = [IdleLoc EXCEPT !.cmd = "update",
               !.task_id = task_id, !.updates = updates, !.stage = "repo",
               !.fi = 1]]
  /\ pc' = [pc EXCEPT ![p] = "find"]
  /\ UNCHANGED <<files, tmp, clock, nadds, everAdded>>

(***************************************************************************)
(* cmd_complete, lines 502-508: the invocation begins with its own         *)
(* find_task.                                                              *)
(***************************************************************************)
BeginComplete(p, task_id) ==
  /\ pc[p] = "idle"
  /\ nops < MaxOps
  /\ nops' = nops + 1
  /\ snap' = files
  /\ loc' = [loc EXCEPT ![p] = [IdleLoc EXCEPT !.cmd = "complete",
               !.task_id = task_id, !.stage = "cli", !.fi = 1]]
  /\ pc' = [pc EXCEPT ![p] = "find"]
  /\ UNCHANGED <<files, tmp, clock, nadds, everAdded>>

(***************************************************************************)
(* update_task, lines 178-218, once find_task has returned the record and  *)
(* its file: the record is merged, stamped, routed and normalized; the     *)
(* next step is the first read of _move_task or of _update_task_in_file.   *)
(***************************************************************************)
UpdateFound(p, l, task, source) ==
  LET u == Updated(task, l.updates, clock)
      target == target_file(u.task.status)
  IN /\ clock' = u.clock
     /\ loc' = [loc EXCEPT ![p] = [l EXCEPT !.task = u.task,
                  !.source = source, !.target = target]]
     /\ pc' = [pc EXCEPT ![p] = IF source # target THEN "move_read_source"
                                ELSE "update_read"]

(***************************************************************************)
(* cmd_complete, lines 510-531, once its find_task has returned: a task    *)
(* that is completed already ends the invocation with exit code 0;         *)
(* otherwise update_task is called with the status and a completed stamp.  *)
(***************************************************************************)
\* a slip: the status of the task is not looked at
CompleteFound_unchecked(p, l, task) ==
  /\ pc' = [pc EXCEPT ![p] = "find"]
  /\ loc' = [loc EXCEPT ![p] = [l EXCEPT !.stage = "repo", !.fi = 1,
               !.updates = [status |-> "completed",
                            completed |-> Some(clock)]]]
  /\ clock' = clock + 1

CompleteFound(p, l, task) ==
  IF task["status"] = "completed"
  THEN /\ pc' = [pc EXCEPT ![p] = "done"]
       /\ loc' = [loc EXCEPT ![p] = [l EXCEPT !.task = task]]
       /\ clock' = clock
  ELSE /\ pc' = [pc EXCEPT ![p] = "find"]
       /\ loc' = [loc EXCEPT ![p] = [l EXCEPT !.stage = "repo", !.fi = 1,
                    !.updates = [status |-> "completed",
                                 completed |-> Some(clock)]]]
       /\ clock' = clock + 1

(***************************************************************************)
(* cmd_update, lines 434-476, once its find_task has returned the task:    *)
(* the field and the value are checked, then update_task is called.  The   *)
(* field and the value are None or a one-element tuple holding the string  *)
(* given on the command line.                                              *)
(***************************************************************************)
valid_fields == {"status", "priority", "notes", "tags", "blocked_by", "title"}

\* lines 438-468: the error that ends cmd_update before update_task
ArgError(field, value) ==
  IF field = None THEN "FieldRequired"
  ELSE IF field[1] \notin valid_fields THEN "InvalidField"
  ELSE IF field[1] = "status" /\ (value = None \/ value[1] \notin Statuses)
  THEN "ValidationError"
  ELSE IF field[1] = "priority" /\ (value = None \/ value[1] \notin Priorities)
  THEN "ValidationError"
  ELSE IF field[1] = "tags" /\ value = None THEN "AttributeError"
  ELSE "none"

\* lines 466-475: the changes; the tags are the value split at its commas
\* (the values given here hold none)
ArgUpdates(field, value) ==
  IF field[1] \in {"notes", "blocked_by"} THEN [f \in {field[1]} |-> value]
  ELSE IF field[1] = "tags" THEN [f \in {field[1]} |-> <<value[1]>>]
  ELSE [f \in {field[1]} |-> value[1]]

CmdUpdateFound(p, l, task) ==
  LET e == ArgError(l.field, l.value)
  IN /\ clock' = clock
     /\ IF e # "none"
        THEN /\ pc' = [pc EXCEPT ![p] = "done"]
             /\ loc' = [loc EXCEPT ![p] =
                  [l EXCEPT !.err = e, !.exit = exit_code(e)]]
        ELSE /\ pc' = [pc EXCEPT ![p] = "find"]
             /\ loc' = [loc EXCEPT ![p] = [l EXCEPT !.stage = "repo", !.fi = 1,
                          !.updates = ArgUpdates(l.field, l.value)]]

\* find_task called by a caller of the library, line 120: the task and its
\* file are returned
FindFound(p, l, task, source) ==
  /\ pc' = [pc EXCEPT ![p] = "done"]
  /\ loc' = [loc EXCEPT ![p] = [l EXCEPT !.task = task, !.source = source]]
  /\ clock' = clock

(***************************************************************************)
(* find_task, lines 114-122: one file is read and searched; the first      *)
(* match ends the search.  No match in the three files is the not-found    *)
(* error of update_task (line 179) or of cmd_complete (line 513).          *)
(***************************************************************************)
FindRead(p) ==
  /\ pc[p] = "find"
  /\ LET l == loc[p]
         c == FileOrder[l.fi]
         i == FirstMatch(files[c].tasks, l.task_id)
     IN IF ~Readable(c)
        THEN Fail(p, "JSONDecodeError") /\ clock' = clock
        ELSE IF i # 0
        THEN (IF l.stage = "cli" THEN CompleteFound(p, l, files[c].tasks[i])
              ELSE IF l.stage = "cli_update"
              THEN CmdUpdateFound(p, l, files[c].tasks[i])
              ELSE IF l.stage = "lib_find"
              THEN FindFound(p, l, files[c].tasks[i], c)
              ELSE UpdateFound(p, l, files[c].tasks[i], c))
        ELSE IF l.fi < Len(FileOrder)
        THEN /\ loc' = [loc EXCEPT ![p].fi = l.fi + 1]
             /\ UNCHANGED <<pc, clock>>
        ELSE Fail(p, "NotFound") /\ clock' = clock
  /\ UNCHANGED <<files, tmp, nops, nadds, snap, everAdded>>

(***************************************************************************)
(* _update_task_in_file, lines 224-231: the file is read, the first        *)
(* record with the id replaced and the container restamped.                *)
(***************************************************************************)
UpdateRead(p) ==
  /\ pc[p] = "update_read"
  /\ LET l == loc[p]
         data == Whole(ReplaceFirst(files[l.source].tasks, l.task_id, l.task),
                       clock)
     IN IF ~Readable(l.source)
        THEN Fail(p, "JSONDecodeError") /\ clock' = clock
        ELSE /\ loc' = [loc EXCEPT ![p].writes =
                          <<[file |-> l.source, data |-> data]>>]
             /\ pc' = [pc EXCEPT ![p] = "w_open"]
             /\ clock' = clock + 1
  /\ UNCHANGED <<files, tmp, nops, nadds, snap, everAdded>>

(***************************************************************************)
(* _move_task, lines 237-239: the source file is read and the records of   *)
(* the id are taken out.                                                   *)
(***************************************************************************)
MoveReadSource(p) ==
  /\ pc[p] = "move_read_source"
  /\ LET l == loc[p]
     IN IF ~Readable(l.source)
        THEN Fail(p, "JSONDecodeError") /\ clock' = clock
        ELSE /\ loc' = [loc EXCEPT ![p].source_data =
                  Whole(WithoutId(files[l.source].tasks, l.task_id), clock)]
             /\ pc' = [pc EXCEPT ![p] = "move_read_target"]
             /\ clock' = clock + 1
  /\ UNCHANGED <<files, tmp, nops, nadds, snap, everAdded>>

(***************************************************************************)
(* _move_task, lines 242-244: the target file is read and the record       *)
(* appended; the two writes follow.                                        *)
(***************************************************************************)
MoveReadTarget(p) ==
  /\ pc[p] = "move_read_target"
  /\ LET l == loc[p]
         target_data == Whole(Appended(files[l.target].tasks, l.task), clock)
     IN IF ~Readable(l.target)
        THEN Fail(p, "JSONDecodeError") /\ clock' = clock
        ELSE /\ loc' = [loc EXCEPT ![p].writes =
                  MoveWrites(l.source, l.source_data, l.target, target_data)]
             /\ pc' = [pc EXCEPT ![p] = "w_open"]
             /\ clock' = clock + 1
  /\ UNCHANGED <<files, tmp, nops, nadds, snap, everAdded>>

\* the script has exited; the next invocation may begin
Return(p) ==
  /\ pc[p] = "done"
  /\ pc' = [pc EXCEPT ![p] = "idle"]
  /\ loc' = [loc EXCEPT ![p] = IdleLoc]
  /\ UNCHANGED <<files, tmp, clock, nops, nadds, snap, everAdded>>

\* an invocation is interrupted (killed, power loss) where it stands
Crash(p) ==
  /\ pc[p] \notin {"idle", "done"}
  /\ pc' = [pc EXCEPT ![p] = "done"]
  /\ loc' = [loc EXCEPT ![p].err = "Interrupted", ![p].exit = 1,
                        ![p].fd = "none"]
  /\ UNCHANGED <<files, tmp, clock, nops, nadds, snap, everAdded>>

(***************************************************************************)
(* The inputs.                                                             *)
(***************************************************************************)
\* the titles of the task lines of a document
Titles == {"Ship release", "BLOCKED rollout"}

\* cmd_create, line 638: the title holds the word BLOCKED in upper or lower
\* case (the other marker, a sign that is not a letter, is in no title
\* given here)
HasBlockedMarker(title) == Contains(upper(title), "BLOCKED")

\* a slip: the marker is looked for on an open line only
LineTask_checkbox_first(title, is_completed, priority, path, line_number, t) ==
  LET task == [title |-> title,
               status |-> IF is_completed THEN "completed"
                          ELSE IF HasBlockedMarker(title) THEN "blocked"
                          ELSE "pending",
               priority |-> priority,
               source_file |-> Some(path),
               source_line |-> Some(line_number),
               notes |-> None,
               tags |-> <<>>,
               blocked_by |-> None,
               depends_on |-> <<>>]
  IN IF is_completed THEN DictUpdate(task, [completed |-> Some(t)]) ELSE task

(***************************************************************************)
(* cmd_create, lines 625-645: the task dict of a task line; t is the       *)
(* clock when the line is reached.                                         *)
(***************************************************************************)
LineTask(title, is_completed, priority, path, line_number, t) ==
  LET task == [title |-> title,
               status |-> IF HasBlockedMarker(title) THEN "blocked"
                          ELSE IF is_completed THEN "completed" ELSE "pending",
               priority |-> priority,
               source_file |-> Some(path),
               source_line |-> Some(line_number),
               notes |-> None,
               tags |-> <<>>,
               blocked_by |-> None,
               depends_on |-> <<>>]
  IN IF is_completed THEN DictUpdate(task, [completed |-> Some(t)]) ELSE task

\* cmd_create, lines 642-648: the file a task line is added to
LineTarget(is_completed) == IF is_completed THEN completed_file ELSE active_file

\* cmd_create on a task line: add_task with the line's task and file
BeginLine(p) ==
  \E title \in Titles, is_completed \in BOOLEAN :
    BeginAdd(p, LineTask(title, is_completed, "medium", "plan.md", 1, clock),
             LineTarget(is_completed),
             IF is_completed THEN clock + 1 ELSE clock)

\* cmd_update, lines 443-476: the changes it passes to update_task
CliUpdates ==
  {[status |-> s] : s \in Statuses}
    \cup {[priority |-> "high"], [notes |-> Some("Add tests")]}

BeginCliUpdate(p) ==
  \E task_id \in 1..MaxId, updates \in CliUpdates :
    BeginUpdate(p, task_id, updates)

BeginCliComplete(p) == \E task_id \in 1..MaxId : BeginComplete(p, task_id)

\* add_task as a caller of the library may call it: with or without an id,
\* on any of the three files
ApiTasks ==
  LET base == [title |-> "Ship release", status |-> "pending",
               priority |-> "medium"]
  IN {base} \cup {DictUpdate(base, [id |-> i]) : i \in 1..MaxId}

BeginApiAdd(p) ==
  \E task \in ApiTasks, target \in Containers : BeginAdd(p, task, target, clock)

(***************************************************************************)
(* The state after the first construction of TaskManager (_init_files,     *)
(* lines 67-79): three containers with no task.                            *)
(***************************************************************************)
Init ==
  /\ files = [c \in Containers |-> Whole(<<>>, 0)]
  /\ tmp = [c \in Containers |-> Absent]
  /\ clock = 1
  /\ pc = [p \in Procs |-> "idle"]
  /\ loc = [p \in Procs |-> IdleLoc]
  /\ nops = 0
  /\ nadds = 0
  /\ snap = files
  /\ everAdded = {}

\* the steps of an invocation that has begun
Step(p) ==
  \/ NextIdRead(p)
  \/ AddRead(p)
  \/ FindRead(p)
  \/ UpdateRead(p)
  \/ MoveReadSource(p)
  \/ MoveReadTarget(p)
  \/ WriteOpen(p)
  \/ WriteDump(p)
  \/ WriteReplace(p)

(***************************************************************************)
(* Spec: the invocations of the command line (a task line of create,       *)
(* update, complete), one after another, each run to its end.              *)
(***************************************************************************)
Next ==
  \/ BeginLine(1)
  \/ BeginCliUpdate(1)
  \/ BeginCliComplete(1)
  \/ Step(1)
  \/ Return(1)

Spec == Init /\ [][Next]_vars

(***************************************************************************)
(* AddSpec: add_task calls of a caller of the library, one after another.  *)
(***************************************************************************)
AddNext ==
  \/ BeginApiAdd(1)
  \/ NextIdRead(1)
  \/ AddRead(1)
  \/ WriteOpen(1)
  \/ WriteDump(1)
  \/ WriteReplace(1)
  \/ Return(1)

AddSpec == Init /\ [][AddNext]_vars

(***************************************************************************)
(* CrashSpec: task lines and status updates one after another, where an    *)
(* invocation may be interrupted at any step.                              *)
(***************************************************************************)
BeginStatusUpdate(p) ==
  \E task_id \in 1..MaxId, status \in Statuses :
    BeginUpdate(p, task_id, [status |-> status])

CrashNext ==
  \/ BeginLine(1)
  \/ BeginStatusUpdate(1)
  \/ Step(1)
  \/ Return(1)
  \/ Crash(1)

CrashSpec == Init /\ [][CrashNext]_vars

(***************************************************************************)
(* ConcSpec: two invocations run at the same time, their file-system       *)
(* steps interleaved in any order; a process is one run of the script.     *)
(* The store is empty, or holds the one task that a sequential run has     *)
(* added from an open task line.                                           *)
(***************************************************************************)
SeedTask ==
  normalized_task(Stamped(
    DictUpdate(LineTask("Ship release", FALSE, "medium", "plan.md", 1, 1),
               [id |-> get_next_id(0)]), 1).task)

SeedFiles ==
  [c \in Containers |->
     IF c = active_file THEN Whole(<<SeedTask>>, 3) ELSE Whole(<<>>, 0)]

ConcInit ==
  /\ \E seeded \in BOOLEAN :
       /\ files = IF seeded THEN SeedFiles
                  ELSE [c \in Containers |-> Whole(<<>>, 0)]
       /\ clock = IF seeded THEN 4 ELSE 1
       /\ everAdded = IF seeded THEN {SeedTask.id} ELSE {}
  /\ tmp = [c \in Containers |-> Absent]
  /\ pc = [p \in Procs |-> "idle"]
  /\ loc = [p \in Procs |-> IdleLoc]
  /\ nops = 0
  /\ nadds = 0
  /\ snap = files

BeginConcLine(p) ==
  \E is_completed \in BOOLEAN :
    BeginAdd(p, LineTask("Ship release", is_completed, "medium", "plan.md", 1, clock),
             LineTarget(is_completed),
             IF is_completed THEN clock + 1 ELSE clock)

BeginConcUpdate(p) ==
  \E updates \in {[status |-> "completed"], [priority |-> "high"]} :
    BeginUpdate(p, SeedTask.id, updates)

ConcNext ==
  \E p \in Procs :
    \/ BeginConcLine(p)
    \/ BeginConcUpdate(p)
    \/ Step(p)

ConcSpec == ConcInit /\ [][ConcNext]_vars

(***************************************************************************)
(* _init_files, lines 67-79, which the constructor of TaskManager runs at   *)
(* the start of every invocation: a container file that does not exist is  *)
(* written as an empty container.  Where the three files exist it writes   *)
(* nothing, and the invocations above begin after it.                      *)
(***************************************************************************)
\* a slip: the file is written whether it exists or not
InitNeeded_always(c) == TRUE

\* line 78: not file_path.exists()
InitNeeded(c) == files[c].st = "absent"

\* lines 69-75: the container with no task; t is the clock when it is built
empty_container(t) == Whole(<<>>, t + 1)

BeginInit(p) ==
  /\ pc[p] = "idle"
  /\ nops < MaxOps
  /\ nops' = nops + 1
  /\ snap' = files
  /\ loc' = [loc EXCEPT ![p] = [IdleLoc EXCEPT !.cmd = "init", !.fi = 1,
               !.empty_container = empty_container(clock)]]
  /\ clock' = clock + 2
  /\ pc' = [pc EXCEPT ![p] = "init_check"]
  /\ UNCHANGED <<files, tmp, nadds, everAdded>>

\* lines 77-79: one file is looked at; _write_json follows when it is absent
InitCheck(p) ==
  /\ pc[p] = "init_check"
  /\ LET l == loc[p]
         c == FileOrder[l.fi]
     IN IF InitNeeded(c)
        THEN /\ loc' = [loc EXCEPT ![p].writes =
                          <<[file |-> c, data |-> l.empty_container]>>]
             /\ pc' = [pc EXCEPT ![p] = "w_open"]
        ELSE /\ loc' = [loc EXCEPT ![p] = Resume(l).loc]
             /\ pc' = [pc EXCEPT ![p] = Resume(l).pc]
  /\ UNCHANGED <<files, tmp, clock, nops, nadds, snap, everAdded>>

(***************************************************************************)
(* InitSpec: TaskManager is constructed, time after time, on a task root   *)
(* where each container file exists or not; active.json may hold a task.   *)
(***************************************************************************)
RootInit ==
  /\ files \in [Containers -> {Absent, Whole(<<>>, 0), Whole(<<SeedTask>>, 3)}]
  /\ files[backlog_file].tasks = <<>>
  /\ files[completed_file].tasks = <<>>
  /\ tmp = [c \in Containers |-> Absent]
  /\ clock = 4
  /\ pc = [p \in Procs |-> "idle"]
  /\ loc = [p \in Procs |-> IdleLoc]
  /\ nops = 0
  /\ nadds = 0
  /\ snap = files
  /\ everAdded = UNION {Ids(files[c].tasks) : c \in Containers}

InitNext ==
  \/ BeginInit(1)
  \/ InitCheck(1)
  \/ WriteOpen(1)
  \/ WriteDump(1)
  \/ WriteReplace(1)
  \/ Return(1)

InitSpec == RootInit /\ [][InitNext]_vars

(***************************************************************************)
(* get_all_tasks(file_filter), lines 250-268.  A filter is None or a       *)
(* one-element tuple holding the string passed.                            *)
(***************************************************************************)
\* a slip: the filter "active" is taken for no filter
FilterFiles_all(file_filter) ==
  IF file_filter \in {None, Some("active")} THEN FileOrder
  ELSE IF file_filter = Some("backlog") THEN <<backlog_file>>
  ELSE IF file_filter = Some("completed") THEN <<completed_file>>
  ELSE <<>>

\* lines 252-261: the files of a filter
FilterFiles(file_filter) ==
  IF file_filter = None THEN FileOrder
  ELSE IF file_filter = Some("active") THEN <<active_file>>
  ELSE IF file_filter = Some("backlog") THEN <<backlog_file>>
  ELSE IF file_filter = Some("completed") THEN <<completed_file>>
  ELSE <<>>

BeginList(p, file_filter) ==
  /\ pc[p] = "idle"
  /\ nops < MaxOps
  /\ nops' = nops + 1
  /\ snap' = files
  /\ loc' = [loc EXCEPT ![p] = [IdleLoc EXCEPT !.cmd = "list",
               !.file_filter = file_filter,
               !.to_read = FilterFiles(file_filter)]]
  /\ pc' = [pc EXCEPT ![p] = IF FilterFiles(file_filter) = <<>> THEN "done"
                             ELSE "list_read"]
  /\ UNCHANGED <<files, tmp, clock, nadds, everAdded>>

\* lines 264-266: one file is read and its tasks are appended to the result
ListRead(p) ==
  /\ pc[p] = "list_read"
  /\ LET l == loc[p]
         c == Head(l.to_read)
     IN IF ~Readable(c)
        THEN Fail(p, "JSONDecodeError")
        ELSE /\ loc' = [loc EXCEPT ![p].all_tasks = l.all_tasks \o files[c].tasks,
                                   ![p].to_read = Tail(l.to_read)]
             /\ pc' = [pc EXCEPT ![p] = IF Tail(l.to_read) = <<>> THEN "done"
                                        ELSE "list_read"]
  /\ UNCHANGED <<files, tmp, clock, nops, nadds, snap, everAdded>>

\* the filters a caller passes: none, the three names, and another string
Filters ==
  {None, Some("active"), Some("backlog"), Some("completed"), Some("archive")}

BeginApiList(p) == \E file_filter \in Filters : BeginList(p, file_filter)

(***************************************************************************)
(* ListSpec: add_task and get_all_tasks calls of a caller of the library,  *)
(* one after another.                                                      *)
(***************************************************************************)
ListNext ==
  \/ BeginApiAdd(1)
  \/ BeginApiList(1)
  \/ NextIdRead(1)
  \/ AddRead(1)
  \/ ListRead(1)
  \/ WriteOpen(1)
  \/ WriteDump(1)
  \/ WriteReplace(1)
  \/ Return(1)

ListSpec == Init /\ [][ListNext]_vars

(***************************************************************************)
(* cmd_create, lines 550-662.  A line of the file is a sequence of pieces: *)
(* a piece is one character of the markup (a space, "-", "[", "x", "]",    *)
(* "#") or a run of text that has no space at either end.                  *)
(***************************************************************************)
lstrip(s, ch) ==
  LET RECURSIVE go(_)
      go(r) == IF r # <<>> /\ Head(r) = ch THEN go(Tail(r)) ELSE r
  IN go(s)

rstrip(s, ch) ==
  LET RECURSIVE go(_)
      go(r) == IF r # <<>> /\ r[Len(r)] = ch THEN go(SubSeq(r, 1, Len(r) - 1))
               ELSE r
  IN go(s)

\* str.strip()
strip(s) == rstrip(lstrip(s, " "), " ")

\* str.startswith(prefix)
startswith(s, prefix) ==
  Len(s) >= Len(prefix) /\ SubSeq(s, 1, Len(prefix)) = prefix

\* the string of a sequence of pieces
Join(s) ==
  LET RECURSIVE go(_)
      go(r) == IF r = <<>> THEN "" ELSE Head(r) \o go(Tail(r))
  IN go(s)

OpenBox == <<"-", " ", "[", " ", "]">>

CheckedBox == <<"-", " ", "[", "x", "]">>

NoteBullet == <<" ", " ", "-", " ">>

\* lines 592-599: the level words that the upper-cased text of a heading
\* contains
Mentions(heading_text) ==
  {level \in {"CRITICAL", "HIGH", "MEDIUM", "LOW"} :
     Contains(upper(heading_text), level)}

\* a slip: the levels are looked for from the lowest to the highest
heading_priority_low_first(heading_text, current_priority) ==
  IF "LOW" \in Mentions(heading_text) THEN "low"
  ELSE IF "MEDIUM" \in Mentions(heading_text) THEN "medium"
  ELSE IF "HIGH" \in Mentions(heading_text) THEN "high"
  ELSE IF "CRITICAL" \in Mentions(heading_text) THEN "critical"
  ELSE current_priority

\* lines 592-599: the priority after a heading
heading_priority(heading_text, current_priority) ==
  IF "CRITICAL" \in Mentions(heading_text) THEN "critical"
  ELSE IF "HIGH" \in Mentions(heading_text) THEN "high"
  ELSE IF "MEDIUM" \in Mentions(heading_text) THEN "medium"
  ELSE IF "LOW" \in Mentions(heading_text) THEN "low"
  ELSE current_priority

\* a slip: a bullet is looked for on the stripped line and the note goes to
\* the first task created
NoteTarget_first_task(stripped, tasks_created) ==
  IF startswith(stripped, <<"-", " ">>) /\ tasks_created # <<>> THEN 1 ELSE 0

\* lines 651-654: the place in tasks_created of the task that a line gives
\* a note to, 0 when the line gives none
NoteTarget(stripped, tasks_created) ==
  IF startswith(stripped, NoteBullet) /\ tasks_created # <<>>
  THEN Len(tasks_created) ELSE 0

\* lines 656-659: the notes of the last created task with one more note
joined_notes(notes, note_text) ==
  IF notes # None /\ notes # Some("") THEN Some(notes[1] \o " " \o note_text)
  ELSE Some(note_text)

\* a slip: the number is not advanced
CountLine_stuck(line_number) == line_number

\* line 579: the number of the line that the loop turns to
CountLine(line_number) == line_number + 1

\* a slip: a task line without a title gives a task
EmptyTitle_kept(title) == FALSE

\* lines 609-611: a task line whose title is empty is skipped
EmptyTitle(title) == title = ""

\* lines 550-576: the file is read and split into lines
BeginCreate(p, doc) ==
  /\ pc[p] = "idle"
  /\ nops < MaxOps
  /\ nops' = nops + 1
  /\ snap' = files
  /\ loc' = [loc EXCEPT ![p] = [IdleLoc EXCEPT !.cmd = "create",
               !.creating = TRUE, !.doc = doc, !.lines = doc,
               !.started = clock, !.current_priority = "medium"]]
  /\ pc' = [pc EXCEPT ![p] = "create_line"]
  /\ UNCHANGED <<files, tmp, clock, nadds, everAdded>>

(***************************************************************************)
(* cmd_create, lines 578-662: one line of the file.  A task line begins    *)
(* add_task and a note line update_task; after the last line cmd_create    *)
(* prints its summary and returns.                                         *)
(***************************************************************************)
CreateLine(p) ==
  /\ pc[p] = "create_line"
  /\ LET l == loc[p]
         line == Head(l.lines)
         stripped == strip(line)
         n == CountLine(l.line_number)
         next == [l EXCEPT !.lines = Tail(l.lines), !.line_number = n]
         is_completed == startswith(stripped, CheckedBox)
         title == Join(strip(SubSeq(stripped, 6, Len(stripped))))
         last == NoteTarget(stripped, l.tasks_created)
         last_task == l.tasks_created[last]
         notes == joined_notes(last_task.notes,
                    Join(strip(SubSeq(stripped, 5, Len(stripped)))))
     IN IF l.lines = <<>>
        THEN /\ pc' = [pc EXCEPT ![p] = "done"]
             /\ loc' = [loc EXCEPT ![p].cmd = "create"]
             /\ UNCHANGED <<clock, nadds>>
        ELSE IF stripped = <<>>
        THEN /\ loc' = [loc EXCEPT ![p] = next]
             /\ UNCHANGED <<pc, clock, nadds>>
        ELSE IF startswith(stripped, <<"#">>)
        THEN /\ loc' = [loc EXCEPT ![p] = [next EXCEPT !.current_priority =
                  heading_priority(Join(strip(lstrip(stripped, "#"))), @)]]
             /\ UNCHANGED <<pc, clock, nadds>>
        ELSE IF startswith(stripped, OpenBox) \/ startswith(stripped, CheckedBox)
        THEN IF EmptyTitle(title)
             THEN /\ loc' = [loc EXCEPT ![p] = next]
                  /\ UNCHANGED <<pc, clock, nadds>>
             ELSE LET task == LineTask(title, is_completed, l.current_priority,
                                       "plan.md", n, clock)
                  IN /\ loc' = [loc EXCEPT ![p] = [next EXCEPT !.cmd = "add",
                            !.task = task, !.arg = task, !.given = FALSE,
                            !.target = LineTarget(is_completed), !.fi = 1,
                            !.max_id = 0, !.written = 0]]
                     /\ pc' = [pc EXCEPT ![p] = "next_id"]
                     /\ clock' = IF is_completed THEN clock + 1 ELSE clock
                     /\ nadds' = nadds + 1
        ELSE IF last # 0
        THEN /\ loc' = [loc EXCEPT ![p] = [next EXCEPT !.cmd = "update",
                  !.tasks_created[last].notes = notes,
                  !.task_id = last_task.id, !.updates = [notes |-> notes],
                  !.stage = "repo", !.fi = 1, !.source = "none",
                  !.target = "none", !.written = 0]]
             /\ pc' = [pc EXCEPT ![p] = "find"]
             /\ UNCHANGED <<clock, nadds>>
        ELSE /\ loc' = [loc EXCEPT ![p] = next]
             /\ UNCHANGED <<pc, clock, nadds>>
  /\ UNCHANGED <<files, tmp, nops, snap, everAdded>>

\* the lines of the files given to cmd_create
HighHeading == <<"#", "#", " ", "HIGH PRIORITY">>

OpenLine(title) == OpenBox \o <<" ", title>>

CheckedLine(title) == CheckedBox \o <<" ", title>>

NoteLine(text) == NoteBullet \o <<text>>

ScenarioA == <<HighHeading, OpenLine("Fix login bug"), NoteLine("Add tests")>>

TwoNotes ==
  <<OpenLine("Fix login bug"), NoteLine("Add tests"), NoteLine("Update docs")>>

ScenarioB == <<CheckedLine("Ship release")>>

CheckedBlocked == <<CheckedLine("BLOCKED rollout")>>

Mixed ==
  <<<<"#", " ", "Low or critical">>, <<>>, OpenBox \o <<" ">>,
    <<" ", " ">> \o OpenLine("Ship release"), <<"#", " ", "Plan">>,
    <<"Ship release">>, CheckedLine("Ship release")>>

OpenBlocked == <<OpenLine("Unblocked sync")>>

NoTitle == <<OpenBox \o <<" ">>, CheckedBox, <<"Ship release">>>>

TwoHeadings ==
  <<HighHeading, OpenLine("Fix login bug"), <<"#", " ", "medium term">>,
    OpenLine("Ship release")>>

TwoOpen ==
  <<OpenLine("Fix login bug"), OpenLine("Ship release"), NoteLine("Add tests")>>

CheckedThenNote == <<CheckedLine("Ship release"), NoteLine("Add tests")>>

Documents ==
  {ScenarioA, TwoNotes, ScenarioB, CheckedBlocked, Mixed, OpenBlocked,
   NoTitle, TwoHeadings, TwoOpen, CheckedThenNote}

BeginCliCreate(p) == \E doc \in Documents : BeginCreate(p, doc)

(***************************************************************************)
(* CreateSpec: the create and update commands, one invocation after        *)
(* another, each run to its end.                                           *)
(***************************************************************************)
CreateNext ==
  \/ BeginCliCreate(1)
  \/ BeginCliUpdate(1)
  \/ CreateLine(1)
  \/ Step(1)
  \/ Return(1)

CreateSpec == Init /\ [][CreateNext]_vars

(***************************************************************************)
(* ValidateSpec: add_task calls of a caller of the library, also with a    *)
(* task dict that lacks a required field, one after another.               *)
(***************************************************************************)
PartialTasks ==
  LET base == [title |-> "Ship release", status |-> "pending",
               priority |-> "medium"]
      Without(k) == [f \in DOMAIN base \ {k} |-> base[f]]
  IN {Without(k) : k \in DOMAIN base}
       \cup {DictUpdate(Without(k), [id |-> 1]) : k \in DOMAIN base}

BeginPartialAdd(p) ==
  \E task \in PartialTasks, target \in Containers :
    BeginAdd(p, task, target, clock)

ValidateNext ==
  \/ BeginApiAdd(1)
  \/ BeginPartialAdd(1)
  \/ NextIdRead(1)
  \/ AddRead(1)
  \/ WriteOpen(1)
  \/ WriteDump(1)
  \/ WriteReplace(1)
  \/ Return(1)

ValidateSpec == Init /\ [][ValidateNext]_vars

(***************************************************************************)
(* LibUpdateSpec: task lines of create, and update_task calls of a caller  *)
(* of the library with any value for the status or the priority, one       *)
(* after another.  update_task, lines 174-220, takes the changes as they   *)
(* are given.                                                              *)
(***************************************************************************)
ApiUpdates ==
  {[status |-> "archived"], [status |-> "backlog"],
   [priority |-> "urgent"], [priority |-> "low"]}

BeginApiUpdate(p) ==
  \E task_id \in 1..MaxId, updates \in ApiUpdates :
    BeginUpdate(p, task_id, updates)

LibUpdateNext ==
  \/ BeginLine(1)
  \/ BeginApiUpdate(1)
  \/ Step(1)
  \/ Return(1)

LibUpdateSpec == Init /\ [][LibUpdateNext]_vars

(***************************************************************************)
(* CorruptSpec: initializations, task lines of create and status updates,  *)
(* one after another, on a store where container files may be no JSON      *)
(* document: empty or torn, as two writers of one container leave them,    *)
(* or damaged from outside.                                                *)
(***************************************************************************)
CorruptInit ==
  /\ files \in [Containers ->
                  {Whole(<<>>, 0), Whole(<<SeedTask>>, 3), EmptyFile, TornFile}]
  /\ files[active_file] # Whole(<<>>, 0)
  /\ files[backlog_file] # Whole(<<SeedTask>>, 3)
  /\ files[completed_file] # Whole(<<SeedTask>>, 3)
  /\ tmp = [c \in Containers |-> Absent]
  /\ clock = 4
  /\ pc = [p \in Procs |-> "idle"]
  /\ loc = [p \in Procs |-> IdleLoc]
  /\ nops = 0
  /\ nadds = 0
  /\ snap = files
  /\ everAdded = UNION {Ids(files[c].tasks) : c \in Containers}

CorruptNext ==
  \/ BeginInit(1)
  \/ InitCheck(1)
  \/ BeginLine(1)
  \/ BeginStatusUpdate(1)
  \/ Step(1)
  \/ Return(1)

CorruptSpec == CorruptInit /\ [][CorruptNext]_vars

(***************************************************************************)
(* LifeSpec: add_task calls of a caller of the library that files a task   *)
(* by its status, task lines of create, updates and completes, one after   *)
(* another.                                                                *)
(***************************************************************************)
StatusTasks ==
  LET base == [title |-> "Ship release", priority |-> "medium"]
  IN {DictUpdate(base, [status |-> "pending"]),
      DictUpdate(base, [status |-> "completed"]),
      DictUpdate(base, [status |-> "completed", completed |-> Some(0)])}

BeginStatusAdd(p) ==
  \E task \in StatusTasks :
    BeginAdd(p, task, target_file(task["status"]), clock)

LifeNext ==
  \/ BeginStatusAdd(1)
  \/ BeginLine(1)
  \/ BeginCliUpdate(1)
  \/ BeginCliComplete(1)
  \/ Step(1)
  \/ Return(1)

LifeSpec == Init /\ [][LifeNext]_vars

(***************************************************************************)
(* FindSpec: add_task and find_task calls of a caller of the library, one  *)
(* after another.  A find_task that finds nothing (line 122) ends with     *)
(* err = "NotFound".                                                       *)
(***************************************************************************)
BeginFind(p, task_id) ==
  /\ pc[p] = "idle"
  /\ nops < MaxOps
  /\ nops' = nops + 1
  /\ snap' = files
  /\ loc' = [loc EXCEPT ![p] = [IdleLoc EXCEPT !.cmd = "find",
               !.task_id = task_id, !.stage = "lib_find", !.fi = 1]]
  /\ pc' = [pc EXCEPT ![p] = "find"]
  /\ UNCHANGED <<files, tmp, clock, nadds, everAdded>>

BeginApiFind(p) == \E task_id \in 1..MaxId : BeginFind(p, task_id)

FindNext ==
  \/ BeginApiAdd(1)
  \/ BeginApiFind(1)
  \/ NextIdRead(1)
  \/ AddRead(1)
  \/ WriteOpen(1)
  \/ WriteDump(1)
  \/ WriteReplace(1)
  \/ FindRead(1)
  \/ Return(1)

FindSpec == Init /\ [][FindNext]_vars

(***************************************************************************)
(* CliSpec: the commands of the script (main, lines 758-802), one          *)
(* invocation after another: update with a field and a value as they are   *)
(* typed, complete, create and list.  The store holds the task of an open  *)
(* task line; completed.json is a container or a torn file.                *)
(***************************************************************************)
\* cmd_update, lines 406-412: the invocation begins with its own find_task
BeginCmdUpdate(p, task_id, field, value) ==
  /\ pc[p] = "idle"
  /\ nops < MaxOps
  /\ nops' = nops + 1
  /\ snap' = files
  /\ loc' = [loc EXCEPT ![p] = [IdleLoc EXCEPT !.cmd = "update",
               !.task_id = task_id, !.field = field, !.value = value,
               !.stage = "cli_update", !.fi = 1]]
  /\ pc' = [pc EXCEPT ![p] = "find"]
  /\ UNCHANGED <<files, tmp, clock, nadds, everAdded>>

\* the field and the value of an update as typed
CmdArgs ==
  {[field |-> None, value |-> None],
   [field |-> Some("owner"), value |-> Some("me")],
   [field |-> Some("status"), value |-> Some("archived")],
   [field |-> Some("status"), value |-> Some("completed")],
   [field |-> Some("status"), value |-> None],
   [field |-> Some("priority"), value |-> Some("urgent")],
   [field |-> Some("priority"), value |-> Some("low")],
   [field |-> Some("title"), value |-> Some("")],
   [field |-> Some("notes"), value |-> Some("Add tests")],
   [field |-> Some("tags"), value |-> None],
   [field |-> Some("tags"), value |-> Some("api")]}

BeginCmdUpdateArgs(p) ==
  \E task_id \in 1..MaxId, a \in CmdArgs :
    BeginCmdUpdate(p, task_id, a.field, a.value)

\* cmd_create, lines 554-556: the file does not exist
BeginCreateMissing(p) ==
  /\ pc[p] = "idle"
  /\ nops < MaxOps
  /\ nops' = nops + 1
  /\ snap' = files
  /\ loc' = [loc EXCEPT ![p] = [IdleLoc EXCEPT !.cmd = "create",
               !.creating = TRUE, !.err = "FileNotFound",
               !.exit = exit_code("FileNotFound")]]
  /\ pc' = [pc EXCEPT ![p] = "done"]
  /\ UNCHANGED <<files, tmp, clock, nadds, everAdded>>

BeginCmdCreate(p) == \E doc \in {ScenarioB, Mixed} : BeginCreate(p, doc)

\* cmd_list, lines 275-278: get_all_tasks("active")
BeginCmdList(p) == BeginList(p, Some("active"))

CliInit ==
  /\ \E torn \in BOOLEAN :
       files = [SeedFiles EXCEPT ![completed_file] =
                  IF torn THEN TornFile ELSE @]
  /\ tmp = [c \in Containers |-> Absent]
  /\ clock = 4
  /\ pc = [p \in Procs |-> "idle"]
  /\ loc = [p \in Procs |-> IdleLoc]
  /\ nops = 0
  /\ nadds = 0
  /\ snap = files
  /\ everAdded = {SeedTask.id}

CliNext ==
  \/ BeginCmdUpdateArgs(1)
  \/ BeginCliComplete(1)
  \/ BeginCmdCreate(1)
  \/ BeginCreateMissing(1)
  \/ BeginCmdList(1)
  \/ CreateLine(1)
  \/ ListRead(1)
  \/ Step(1)
  \/ Return(1)

CliSpec == CliInit /\ [][CliNext]_vars

(***************************************************************************)
(* The claims.                                                             *)
(***************************************************************************)
\* the records of the three containers, each with the place it is stored at
Stored ==
  UNION {{[file |-> c, pos |-> i] : i \in 1..Len(files[c].tasks)} :
           c \in Containers}

RecordAt(r) == files[r.file].tasks[r.pos]

AllIds == UNION {Ids(files[c].tasks) : c \in Containers}

MaxOf(S) == CHOOSE m \in S : \A x \in S : x <= m

\* C1: at every instant of every execution an id identifies at most one
\* task record of the three containers, stored in one container.
C1_IdIdentifiesOneRecord ==
  \A r1, r2 \in Stored : RecordAt(r1).id = RecordAt(r2).id => r1 = r2

\* C2: after every add call of a sequence of add calls made one after
\* another, with an id passed or not, the ids of the stored records are
\* pairwise distinct.
C2_AddIdsDistinct ==
  pc[1] \in {"idle", "done"} =>
    \A c1, c2 \in Containers :
      \A i \in 1..Len(files[c1].tasks), j \in 1..Len(files[c2].tasks) :
        (c1 # c2 \/ i # j) => files[c1].tasks[i].id # files[c2].tasks[j].id

\* C3: the id get_next_id returns is 1 + the largest id of the three
\* containers, and 1 when they hold no task.
C3_NextIdIsMaxPlusOne ==
  \A p \in Procs :
    (pc[p] = "add_read" /\ ~loc[p].given) =>
      loc[p].task.id = IF AllIds = {} THEN 1 ELSE 1 + MaxOf(AllIds)

\* C3, witness: get_next_id has returned while backlog or completed holds
\* the largest id and active holds a smaller one.
C3_Witness ==
  /\ pc[1] = "add_read"
  /\ ~loc[1].given
  /\ Ids(files[active_file].tasks) # {}
  /\ MaxOf(AllIds) \notin Ids(files[active_file].tasks)
  /\ loc[1].task.id = MaxOf(AllIds) + 1

\* the invocation p has run update_task to its end without an error
UpdateReturned(p) ==
  /\ pc[p] = "done"
  /\ loc[p].cmd \in {"update", "complete"}
  /\ loc[p].stage = "repo"
  /\ loc[p].err = "none"

\* C4: update(id, {status: completed}) of a task of active or backlog, run
\* to its end, leaves a record with the id and a completed stamp in the
\* completed container and no record with the id in the container it was in.
C4_MovedToCompleted ==
  \A p \in Procs :
    (/\ UpdateReturned(p)
     /\ Has(loc[p].updates, "status")
     /\ loc[p].updates.status = "completed"
     /\ loc[p].source \in {active_file, backlog_file})
    => /\ \E i \in Where(completed_file, loc[p].task_id) :
            files[completed_file].tasks[i].completed # None
       /\ Where(loc[p].source, loc[p].task_id) = {}

\* C4, witness: cmd_update has set the status of a task of the backlog to
\* completed.
C4_Witness ==
  /\ UpdateReturned(1)
  /\ loc[1].cmd = "update"
  /\ loc[1].updates = [status |-> "completed"]
  /\ loc[1].source = backlog_file
  /\ Where(completed_file, loc[1].task_id) # {}

\* the container of each status, as the specification tabulates it
RoutingTable ==
  [pending |-> active_file, in_progress |-> active_file,
   blocked |-> active_file, backlog |-> backlog_file,
   completed |-> completed_file]

\* C5: the target container update chooses is the one of the resulting
\* status (active for pending, in_progress and blocked, backlog for
\* backlog, completed for completed), whatever the source container, and
\* the record is stored there when update returns.
C5_StatusRouting ==
  \A p \in Procs :
    (loc[p].cmd \in {"update", "complete"} /\ loc[p].target # "none")
    => /\ loc[p].task.status \in DOMAIN RoutingTable
       /\ loc[p].target = RoutingTable[loc[p].task.status]
       /\ UpdateReturned(p) =>
            \E i \in Where(loc[p].target, loc[p].task_id) :
              files[loc[p].target].tasks[i].status = loc[p].task.status

\* C5, witness: update has moved a blocked task out of the completed
\* container into active.
C5_Witness ==
  /\ UpdateReturned(1)
  /\ loc[1].source = completed_file
  /\ loc[1].task.status = "blocked"
  /\ loc[1].target = active_file

\* C6: the path of a container always holds a complete document: a reader
\* never finds a file that is empty or partly written.
C6_ReaderSeesWholeFile == \A c \in Containers : files[c].st = "whole"

BetweenMoveWrites(p) ==
  /\ loc[p].cmd \in {"update", "complete"}
  /\ loc[p].source # loc[p].target
  /\ loc[p].written = 1
  /\ Len(loc[p].writes) = 1

\* C8: between the two writes of a move, and after an interruption there,
\* the source file is written and the target file is not: the moved task
\* is in neither container and every other record is where it was.
C8_InterruptedMove ==
  \A p \in Procs :
    BetweenMoveWrites(p) =>
      /\ Where(loc[p].source, loc[p].task_id) = {}
      /\ Where(loc[p].target, loc[p].task_id) = {}
      /\ files[loc[p].target] = snap[loc[p].target]
      /\ \A c \in Containers :
           WithoutId(files[c].tasks, loc[p].task_id)
             = WithoutId(snap[c].tasks, loc[p].task_id)

\* C8, witness: a move was interrupted between its two writes while the
\* store held another task.
C8_Witness ==
  /\ pc[1] = "done"
  /\ loc[1].err = "Interrupted"
  /\ BetweenMoveWrites(1)
  /\ AllIds # {}

\* the invocation p runs add_task without an id, has its id from
\* get_next_id and has not stored its record yet
HoldsNewId(p) ==
  /\ loc[p].cmd = "add"
  /\ ~loc[p].given
  /\ pc[p] \in {"add_read", "w_open", "w_dump", "w_replace"}

\* the invocation p has run add_task without an id to its end
AddReturned(p) ==
  /\ pc[p] = "done"
  /\ loc[p].cmd = "add"
  /\ ~loc[p].given
  /\ loc[p].err = "none"

\* C9: two invocations that add a task without an id at the same time
\* obtain the same id from get_next_id whenever both call it before either
\* has stored its record, and when both then store their record (in
\* different containers) two records carry the same id.
C9_ConcurrentAddsShareId ==
  \A p, q \in Procs :
    p # q =>
      /\ (HoldsNewId(p) /\ HoldsNewId(q)) => loc[p].task.id = loc[q].task.id
      /\ (/\ AddReturned(p)
          /\ AddReturned(q)
          /\ loc[p].task.id = loc[q].task.id
          /\ loc[p].target # loc[q].target)
         => /\ Where(loc[p].target, loc[p].task.id) # {}
            /\ Where(loc[q].target, loc[q].task.id) # {}

\* C9, witness: both adds have returned without an error and two stored
\* records carry the id that both obtained.
C9_Witness ==
  /\ AddReturned(1)
  /\ AddReturned(2)
  /\ loc[1].task.id = loc[2].task.id
  /\ \E r1, r2 \in Stored :
       /\ r1 # r2
       /\ RecordAt(r1).id = loc[1].task.id
       /\ RecordAt(r2).id = loc[1].task.id

\* the invocation p has moved its task from one container to another
MoveReturned(p) == UpdateReturned(p) /\ loc[p].source # loc[p].target

\* the invocation q has rewritten its task in place in container c
InPlaceReturned(q, c) ==
  UpdateReturned(q) /\ loc[q].source = c /\ loc[q].target = c

\* C10: when a move of a task and an in-place update of the source
\* container run at the same time and both return, the moved task is in
\* the target container, and it is in the source container too exactly
\* when the in-place update wrote back what it had read before the move:
\* the record found in the source is then the one the in-place update built.
C10_MoveRacesInPlaceUpdate ==
  \A p, q \in Procs :
    (p # q /\ MoveReturned(p) /\ InPlaceReturned(q, loc[p].source)
       /\ loc[q].task_id = loc[p].task_id)
    => /\ Where(loc[p].target, loc[p].task_id) # {}
       /\ \A i \in Where(loc[p].source, loc[p].task_id) :
            files[loc[p].source].tasks[i] = loc[q].task

\* C10, witness: the move and the in-place update have both returned and
\* the moved task is in the source and in the target container.
C10_Witness ==
  \E p, q \in Procs :
    /\ p # q
    /\ MoveReturned(p)
    /\ InPlaceReturned(q, loc[p].source)
    /\ loc[q].task_id = loc[p].task_id
    /\ Where(loc[p].source, loc[p].task_id) # {}
    /\ Where(loc[p].target, loc[p].task_id) # {}

\* the invocation p has run add_task to its end, with or without an id
AnyAddReturned(p) ==
  /\ pc[p] = "done"
  /\ loc[p].cmd = "add"
  /\ loc[p].err = "none"

CanonicalFields ==
  {"id", "title", "status", "priority", "created", "updated", "completed",
   "source_file", "source_line", "notes", "tags", "blocked_by", "depends_on"}

\* C11: after add(t), find(t.id) returns a record with every canonical
\* field, the values of t for the fields t supplies, null for the optional
\* scalar fields and the empty list for the tags and depends_on that t does
\* not supply, and the container that add targeted.
C11_AddFindRoundTrip ==
  \A p \in Procs :
    AnyAddReturned(p) =>
      LET t == loc[p].arg
          r == find_task(loc[p].task.id)
      IN /\ r.found
         /\ r.file = loc[p].target
         /\ DOMAIN r.task = CanonicalFields
         /\ \A k \in DOMAIN t : r.task[k] = t[k]
         /\ \A k \in {"completed", "source_file", "source_line", "notes",
                       "blocked_by"} \ DOMAIN t : r.task[k] = None
         /\ \A k \in {"tags", "depends_on"} \ DOMAIN t : r.task[k] = <<>>

\* the invocation p has run _init_files to its end
InitReturned(p) == pc[p] = "done" /\ loc[p].cmd = "init"

\* C12: initialize raises no error; a container file that did not exist
\* holds a container with no task afterwards, and a container file that
\* existed is left as it was, so that a second initialize changes nothing.
C12_InitIdempotent ==
  \A p \in Procs :
    InitReturned(p) =>
      /\ loc[p].err = "none"
      /\ \A c \in Containers :
           IF snap[c].st = "absent"
           THEN files[c].st = "whole" /\ files[c].tasks = <<>>
           ELSE files[c] = snap[c]

\* C12, witness: the second initialize has returned on a task root that was
\* empty before the first: the three containers are those the first wrote.
C12_Witness ==
  /\ InitReturned(1)
  /\ nops = 2
  /\ \A c \in Containers :
       /\ files[c].st = "whole"
       /\ files[c].tasks = <<>>
       /\ files[c].last_updated > 3
       /\ snap[c] = files[c]

\* the invocation p has run get_all_tasks to its end
ListReturned(p) ==
  /\ pc[p] = "done"
  /\ loc[p].cmd = "list"
  /\ loc[p].err = "none"

\* C13: list("active") returns the tasks of the active container, in the
\* order of the container, and no other; list without a filter returns the
\* tasks of active, then backlog, then completed, every record of the
\* three containers once, whether or not another has its id.
C13_ListReturnsResidents ==
  \A p \in Procs :
    ListReturned(p) =>
      /\ loc[p].file_filter = Some("active") =>
           loc[p].all_tasks = files[active_file].tasks
      /\ loc[p].file_filter = None =>
           loc[p].all_tasks = files[active_file].tasks
                                \o files[backlog_file].tasks
                                \o files[completed_file].tasks

\* C13, witness: a list of the active container has returned while the
\* backlog holds a task, and the active container holds one with the same id.
C13_Witness ==
  /\ ListReturned(1)
  /\ loc[1].file_filter = Some("active")
  /\ loc[1].all_tasks # <<>>
  /\ \E i \in 1..Len(files[backlog_file].tasks) :
       files[backlog_file].tasks[i].id = loc[1].all_tasks[1].id

\* the invocation p has run cmd_create to its end
CreateReturned(p) ==
  /\ pc[p] = "done"
  /\ loc[p].cmd = "create"
  /\ loc[p].err = "none"

\* the store held no task when the latest invocation began
StoreWasEmpty == \A c \in Containers : snap[c].tasks = <<>>

\* a line of a file that is a note: two spaces of indent, then "- "
IndentedBullet(line) == startswith(line, NoteBullet)

\* the text of a note line
BulletText(line) == Join(strip(SubSeq(line, 5, Len(line))))

\* the records of container c that come from line n of the file
FromLine(c, n) ==
  {i \in 1..Len(files[c].tasks) : files[c].tasks[i].source_line = Some(n)}

\* C14: when a file is ingested, the text of an indented bullet line that
\* comes right after an open task line is in the stored notes of the task
\* of that line (it is the notes when no other bullet follows); the file
\* "## HIGH PRIORITY", "- [ ] Fix login bug", "  - Add tests" gives one task
\* of the active container, with priority high, the title "Fix login bug",
\* status pending and notes "Add tests", and no other task.
C14_NotesAppended ==
  \A p \in Procs :
    (CreateReturned(p) /\ StoreWasEmpty) =>
      LET doc == loc[p].doc
      IN /\ \A n \in 1..(Len(doc) - 1) :
              (startswith(strip(doc[n]), OpenBox) /\ IndentedBullet(doc[n + 1]))
              => \E i \in FromLine(active_file, n) :
                   LET notes == files[active_file].tasks[i].notes
                   IN /\ notes # None
                      /\ (n + 1 = Len(doc) \/ ~IndentedBullet(doc[n + 2]))
                           => notes = Some(BulletText(doc[n + 1]))
         /\ doc = ScenarioA =>
              /\ Len(files[active_file].tasks) = 1
              /\ files[active_file].tasks[1].priority = "high"
              /\ files[active_file].tasks[1].title = "Fix login bug"
              /\ files[active_file].tasks[1].status = "pending"
              /\ files[active_file].tasks[1].notes = Some("Add tests")
              /\ files[backlog_file].tasks = <<>>
              /\ files[completed_file].tasks = <<>>

\* a file of one line, "- [x] <title>", with a title
OneCheckedLine(doc) ==
  /\ Len(doc) = 1
  /\ startswith(strip(doc[1]), CheckedBox)
  /\ Join(strip(SubSeq(strip(doc[1]), 6, Len(strip(doc[1]))))) # ""

\* C15: the ingestion of a "- [x] <title>" line with no heading before it
\* gives one task, in the completed container, with status completed,
\* priority medium and a completed stamp taken from the clock during the
\* ingestion, and no task in the active container.
C15_CheckedLineCompleted ==
  \A p \in Procs :
    (CreateReturned(p) /\ StoreWasEmpty /\ OneCheckedLine(loc[p].doc)) =>
      /\ Len(files[completed_file].tasks) = 1
      /\ files[completed_file].tasks[1].status = "completed"
      /\ files[completed_file].tasks[1].priority = "medium"
      /\ files[completed_file].tasks[1].completed # None
      /\ \E t \in loc[p].started..(clock - 1) :
           files[completed_file].tasks[1].completed = Some(t)
      /\ files[active_file].tasks = <<>>
      /\ files[backlog_file].tasks = <<>>

\* the invocation p runs add_task on a task dict that lacks a required
\* field other than the id
LacksRequired(p) ==
  /\ loc[p].cmd = "add"
  /\ {"title", "status", "priority"} \ DOMAIN loc[p].arg # {}

\* C16: add_task on a task that lacks the title, the status or the
\* priority once it has an id ends in the validation error, and no
\* container file is written: the three containers are as they were.
C16_AddValidates ==
  \A p \in Procs :
    LacksRequired(p) =>
      /\ files = snap
      /\ tmp = [c \in Containers |-> Absent]
      /\ pc[p] \in {"next_id", "done"}
      /\ pc[p] = "done" => loc[p].err = "ValueError"

\* C16, witness: add_task has failed on a task without priority that got
\* its id from a store that holds tasks.
C16_Witness ==
  /\ pc[1] = "done"
  /\ LacksRequired(1)
  /\ ~Has(loc[1].arg, "priority")
  /\ ~loc[1].given
  /\ loc[1].task.id > 1
  /\ loc[1].err = "ValueError"

\* the ids of the store when the latest invocation began
IdsBefore == UNION {Ids(snap[c].tasks) : c \in Containers}

\* the invocation p runs update on an id that no container holds
UpdatesAbsentId(p) ==
  /\ loc[p].cmd = "update"
  /\ loc[p].task_id \notin IdsBefore

\* C17: update(id, changes) for an id that is in none of the three
\* containers ends in the not-found error and leaves the three containers
\* as they were.
C17_UpdateNotFound ==
  \A p \in Procs :
    UpdatesAbsentId(p) =>
      /\ files = snap
      /\ pc[p] \in {"find", "done"}
      /\ pc[p] = "done" => loc[p].err = "NotFound" /\ loc[p].exit = 1

\* C17, witness: an update to completed of an id that the store does not
\* hold has failed while the store holds tasks in two containers.
C17_Witness ==
  /\ pc[1] = "done"
  /\ UpdatesAbsentId(1)
  /\ loc[1].updates = [status |-> "completed"]
  /\ loc[1].err = "NotFound"
  /\ files[active_file].tasks # <<>>
  /\ files[completed_file].tasks # <<>>

\* the changes hold a status or a priority that is not of the enumeration
OutOfEnum(updates) ==
  \/ Has(updates, "status") /\ updates["status"] \notin Statuses
  \/ Has(updates, "priority") /\ updates["priority"] \notin Priorities

\* C18: update with a status or a priority outside the enumerations ends
\* in a validation error before a container is written: the containers
\* are as they were, and every stored status and priority is of its
\* enumeration.
C18_UpdateValidatesEnums ==
  /\ \A p \in Procs :
       (loc[p].cmd = "update" /\ OutOfEnum(loc[p].updates)) =>
         /\ files = snap
         /\ pc[p] = "done" => loc[p].err \in {"ValueError", "NotFound"}
  /\ \A r \in Stored :
       /\ RecordAt(r).status \in Statuses
       /\ RecordAt(r).priority \in Priorities

\* the file of container c was no JSON document when the latest invocation
\* began
WasCorrupt(c) == snap[c].st \in {"empty", "torn"}

\* the invocation p reads a file next, or is about to look at one
AtRead(p) ==
  pc[p] \in {"next_id", "find", "add_read", "update_read",
             "move_read_source", "move_read_target"}

\* C19: a container file that is no JSON document ends the operation that
\* reads it in an error; an add or an update makes all its reads before
\* its first write, so it fails with no container written; the file is
\* never taken for a container with no task (an add that needs an id and
\* an update that finds no task fail on it) and never replaced, neither
\* by an operation nor by the initialization.
C19_CorruptIsFatal ==
  /\ \A c \in Containers : WasCorrupt(c) => files[c] = snap[c]
  /\ \A p \in Procs :
       /\ loc[p].err = "JSONDecodeError" =>
            files = snap /\ loc[p].written = 0 /\ loc[p].exit = 1
       /\ AtRead(p) =>
            /\ files = snap
            /\ loc[p].written = 0
            /\ tmp = [c \in Containers |-> Absent]
       /\ (pc[p] = "done" /\ \E c \in Containers : WasCorrupt(c)) =>
            /\ (loc[p].cmd = "add" /\ ~loc[p].given) =>
                 loc[p].err = "JSONDecodeError"
            /\ loc[p].cmd = "update" =>
                 /\ loc[p].err # "NotFound"
                 /\ (WasCorrupt(active_file) \/ loc[p].source = "none"
                       \/ WasCorrupt(loc[p].source)
                       \/ WasCorrupt(loc[p].target))
                    => loc[p].err = "JSONDecodeError"
            /\ loc[p].cmd = "init" => files = snap

\* C19, witness: an update that moves the task of active.json to the
\* completed container has failed on the read of a torn completed.json,
\* after it had read active.json.
C19_Witness ==
  /\ pc[1] = "done"
  /\ loc[1].cmd = "update"
  /\ loc[1].source = active_file
  /\ loc[1].target = completed_file
  /\ loc[1].err = "JSONDecodeError"
  /\ files[completed_file] = TornFile
  /\ files[active_file].tasks # <<>>

\* a record with this id and the status completed is in the completed
\* container
Settled(id) ==
  \E i \in Where(completed_file, id) :
    files[completed_file].tasks[i].status = "completed"

\* C20: completed is a terminal status: once a task has the status
\* completed and is in the completed container, no step of a later
\* operation changes its status or takes it out of that container.
C20_CompletedIsTerminal ==
  [][\A id \in AllIds : Settled(id) => Settled(id)']_vars

\* no invocation is under way
Quiet == \A p \in Procs : pc[p] \in {"idle", "done"}

\* C21: after any sequence of add, update, complete and ingest operations
\* every stored task with the status completed has a completed stamp.
C21_CompletedHasStamp ==
  Quiet =>
    \A r \in Stored :
      RecordAt(r).status = "completed" => RecordAt(r).completed # None


\* C22: after any sequence of add, update, complete and ingest operations
\* every stored task has a non-empty title, a status of the enumeration and
\* a priority of the enumeration.
C22_FieldsWellFormed ==
  Quiet => \A r \in Stored :
    /\ RecordAt(r).title # ""
    /\ RecordAt(r).status \in Statuses
    /\ RecordAt(r).priority \in Priorities


\* the command of invocation p
Invoked(p) == IF loc[p].creating THEN "create" ELSE loc[p].cmd

\* the number of records in the containers f
StoredCount(f) ==
  Len(f[active_file].tasks) + Len(f[backlog_file].tasks)
    + Len(f[completed_file].tasks)

\* the number of lines of a file that are a task line with a title
TaskLineCount(doc) ==
  Cardinality({n \in 1..Len(doc) :
    LET s == strip(doc[n])
    IN /\ startswith(s, OpenBox) \/ startswith(s, CheckedBox)
       /\ Join(strip(SubSeq(s, 6, Len(s)))) # ""})

\* the value that `update <id> <field> <value>` asks to store
Requested(field, value) ==
  IF field = "tags" THEN <<value[1]>>
  ELSE IF field \in {"notes", "blocked_by"} THEN value
  ELSE value[1]

\* the arguments of an update name a field of a task and, for the status
\* and the priority, a value of the enumeration
WellTyped(field, value) ==
  /\ field # None
  /\ field[1] \in {"status", "priority", "notes", "tags", "blocked_by", "title"}
  /\ field[1] = "status" => value # None /\ value[1] \in Statuses
  /\ field[1] = "priority" => value # None /\ value[1] \in Priorities
  /\ field[1] = "tags" => value # None

\* what invocation p was asked to do has been done
Succeeded(p) ==
  LET l == loc[p]
  IN CASE Invoked(p) = "update" ->
            /\ WellTyped(l.field, l.value)
            /\ \E r \in Stored :
                 /\ RecordAt(r).id = l.task_id
                 /\ RecordAt(r)[l.field[1]] = Requested(l.field[1], l.value)
       [] Invoked(p) = "complete" ->
            \E r \in Stored :
              /\ r.file = completed_file
              /\ RecordAt(r).id = l.task_id
              /\ RecordAt(r).status = "completed"
       [] Invoked(p) = "create" ->
            /\ l.doc # None
            /\ StoredCount(files) = StoredCount(snap) + TaskLineCount(l.doc)
       [] Invoked(p) = "list" ->
            /\ files[active_file].st = "whole"
            /\ l.all_tasks = files[active_file].tasks
       [] OTHER -> FALSE

\* invocation p hit an error: an exception, arguments that do not pass the
\* checks, or an id that no container holds
Failed(p) ==
  \/ loc[p].err # "none"
  \/ Invoked(p) \in {"update", "complete"} /\ loc[p].task_id \notin IdsBefore
  \/ Invoked(p) = "update" /\ ~WellTyped(loc[p].field, loc[p].value)

Rank(c) == CASE c = "active" -> 1 [] c = "backlog" -> 2 [] c = "completed" -> 3

\* a find_task call has ended
FindReturned(p) == pc[p] = "done" /\ loc[p].cmd = "find"

\* C24: find(id) returns the first record with the id of the first of
\* active, backlog, completed that holds the id, together with that
\* container, and NotFound when no container holds the id.
C24_FindFirstInOrder ==
  \A p \in Procs : FindReturned(p) =>
    LET id == loc[p].task_id
        holders == {c \in Containers : Where(c, id) # {}}
    IN IF holders = {}
       THEN loc[p].err = "NotFound"
       ELSE /\ loc[p].err = "none"
            /\ loc[p].source \in holders
            /\ \A c \in holders : Rank(loc[p].source) <= Rank(c)
            /\ \E i \in Where(loc[p].source, id) :
                 /\ \A j \in Where(loc[p].source, id) : i <= j
                 /\ loc[p].task = files[loc[p].source].tasks[i]

\* C24, witness: find_task has returned the record of the backlog for an id
\* that the backlog and the completed container hold.
C24_Witness ==
  /\ FindReturned(1)
  /\ loc[1].source = backlog_file
  /\ Where(active_file, loc[1].task_id) = {}
  /\ Where(completed_file, loc[1].task_id) # {}


\* a line of a file that is a task line with a title
IsTaskLine(line) ==
  /\ startswith(strip(line), OpenBox) \/ startswith(strip(line), CheckedBox)
  /\ Join(strip(SubSeq(strip(line), 6, Len(strip(line))))) # ""

\* the title of a task line
LineTitle(line) == Join(strip(SubSeq(strip(line), 6, Len(strip(line)))))

\* the titles of the files that hold the word BLOCKED in some case
MarkedTitles == {"BLOCKED rollout", "Unblocked sync"}

\* C25: the ingestion of a task line whose title holds the word BLOCKED, in
\* upper or lower case, gives a task with the status blocked, whether the
\* box of the line is checked or not.
C25_MarkerForcesBlocked ==
  \A p \in Procs :
    (CreateReturned(p) /\ StoreWasEmpty) =>
      \A n \in 1..Len(loc[p].doc) :
        (IsTaskLine(loc[p].doc[n]) /\ LineTitle(loc[p].doc[n]) \in MarkedTitles)
        => /\ \E c \in Containers : FromLine(c, n) # {}
           /\ \A c \in Containers : \A i \in FromLine(c, n) :
                files[c].tasks[i].status = "blocked"

\* C25, witness: the file "- [x] BLOCKED rollout" has been ingested and its
\* task is stored.
C25_Witness ==
  /\ CreateReturned(1)
  /\ StoreWasEmpty
  /\ loc[1].doc = CheckedBlocked
  /\ \E c \in Containers : FromLine(c, 1) # {}


\* C26: after any sequence of create, update and complete invocations every
\* stored task is in the container of its status: completed in the
\* completed container, backlog in the backlog container, pending,
\* in_progress and blocked in the active container.
C26_ResidesWhereStatusMaps ==
  Quiet => \A r \in Stored :
    r.file = (CASE RecordAt(r).status = "completed" -> "completed"
                [] RecordAt(r).status = "backlog" -> "backlog"
                [] OTHER -> "active")


\* the text of a heading line
HeadingText(line) == Join(strip(lstrip(strip(line), "#")))

\* the level that the headings of the files name, first of critical, high,
\* medium, low; cur when the heading names none
NamedLevel(text, cur) ==
  CASE text = "HIGH PRIORITY" -> "high"
    [] text = "Low or critical" -> "critical"
    [] text = "medium term" -> "medium"
    [] OTHER -> cur

\* the priority in effect at line n of a file: medium, or the level of the
\* latest heading before the line that names one
InEffect(doc, n) ==
  LET RECURSIVE go(_, _)
      go(k, cur) ==
        IF k >= n THEN cur
        ELSE IF startswith(strip(doc[k]), <<"#">>)
        THEN go(k + 1, NamedLevel(HeadingText(doc[k]), cur))
        ELSE go(k + 1, cur)
  IN go(1, "medium")

\* C27: in an ingestion the priority starts at medium; a heading whose text
\* holds CRITICAL, HIGH, MEDIUM or LOW in any case sets it to the first of
\* these levels that the text holds, a heading that holds none leaves it,
\* and every task line gets the priority in effect at the line.
C27_HeadingSetsPriority ==
  \A p \in Procs :
    (CreateReturned(p) /\ StoreWasEmpty) =>
      \A n \in 1..Len(loc[p].doc) :
        IsTaskLine(loc[p].doc[n]) =>
          /\ \E c \in Containers : FromLine(c, n) # {}
          /\ \A c \in Containers : \A i \in FromLine(c, n) :
               files[c].tasks[i].priority = InEffect(loc[p].doc, n)

\* C27, witness: a file with a heading that names two levels and a later
\* heading that names none has been ingested; the task line after the
\* second heading has the level of the first.
C27_Witness ==
  /\ CreateReturned(1)
  /\ StoreWasEmpty
  /\ loc[1].doc = Mixed
  /\ \E i \in FromLine(completed_file, 7) :
       files[completed_file].tasks[i].priority = "critical"


\* line n of a file is an open task line with a title
IsOpenTaskLine(doc, n) ==
  IsTaskLine(doc[n]) /\ startswith(strip(doc[n]), OpenBox)

WhereBefore(c, id) ==
  {i \in 1..Len(snap[c].tasks) : snap[c].tasks[i].id = id}

\* the fields of a record that an update with these changes may set, given
\* the record before and after
MayChange(old, new, updates) ==
  DOMAIN updates \cup {"updated"}
    \cup (IF new.status = "completed" /\ old.completed = None
          THEN {"completed"} ELSE {})

\* C29: update(id, changes) sets, in the record of the task, the fields
\* that changes names to the values it gives, the updated stamp, and the
\* completed stamp when the resulting status is completed and the stamp
\* was null; every other field keeps its value, and a completed stamp that
\* is not null stays unless changes gives one.
C29_UpdateChangesOnlyNamedFields ==
  \A p \in Procs : UpdateReturned(p) =>
    \A i \in WhereBefore(loc[p].source, loc[p].task_id) :
      \E j \in Where(loc[p].target, loc[p].task_id) :
        LET old == snap[loc[p].source].tasks[i]
            new == files[loc[p].target].tasks[j]
            updates == loc[p].updates
        IN /\ DOMAIN new = DOMAIN old
           /\ \A f \in DOMAIN old \ MayChange(old, new, updates) :
                new[f] = old[f]
           /\ \A f \in DOMAIN updates \cap DOMAIN old : new[f] = updates[f]
           /\ new.updated > old.updated
           /\ (old.completed # None /\ ~Has(updates, "completed"))
                => new.completed = old.completed
           /\ new.status = "completed" => new.completed # None

\* C29, witness: the priority of a completed task has been updated and the
\* task has the completed stamp it had.
C29_Witness ==
  /\ UpdateReturned(1)
  /\ loc[1].updates = [priority |-> "high"]
  /\ loc[1].source = completed_file
  /\ \E i \in WhereBefore(completed_file, loc[1].task_id) :
       /\ snap[completed_file].tasks[i].completed # None
       /\ snap[completed_file].tasks[i].status = "completed"
       /\ snap[completed_file].tasks[i].priority = "medium"
       /\ \E j \in Where(completed_file, loc[1].task_id) :
            /\ files[completed_file].tasks[j].priority = "high"
            /\ files[completed_file].tasks[j].completed
                 = snap[completed_file].tasks[i].completed


\* a list without its i-th element
Without(tasks, i) ==
  SubSeq(tasks, 1, i - 1) \o SubSeq(tasks, i + 1, Len(tasks))

\* the containers whose file is not what it was when the latest invocation
\* began
Rewritten == {c \in Containers : files[c] # snap[c]}

\* C30: an update that leaves the task in its container rewrites the
\* record at its place in the list and writes that container file only; an
\* update that changes the container takes the record out of the source
\* list, appends it at the end of the target list and writes the source
\* and the target file, and no other.
C30_InPlaceOrMove ==
  \A p \in Procs : UpdateReturned(p) =>
    LET src == loc[p].source
        tgt == loc[p].target
        id == loc[p].task_id
    IN \A i \in WhereBefore(src, id) :
         IF src = tgt
         THEN /\ files[src].tasks = [snap[src].tasks EXCEPT ![i] = loc[p].task]
              /\ Rewritten = {src}
         ELSE /\ files[src].tasks = Without(snap[src].tasks, i)
              /\ files[tgt].tasks = Append(snap[tgt].tasks, loc[p].task)
              /\ Rewritten = {src, tgt}

\* C30, witness: a task has been moved into a container that held a task
\* and is the last of its list.
C30_Witness ==
  /\ MoveReturned(1)
  /\ snap[loc[1].target].tasks # <<>>
  /\ Len(files[loc[1].target].tasks) = Len(snap[loc[1].target].tasks) + 1
  /\ files[loc[1].target].tasks[Len(files[loc[1].target].tasks)].id
       = loc[1].task_id


\* the numbers of the lines of a file that are a task line with a title
TaskLineNumbers(doc) == {n \in 1..Len(doc) : IsTaskLine(doc[n])}

\* the number of the k-th task line of a file
Kth(doc, k) ==
  CHOOSE n \in TaskLineNumbers(doc) :
    Cardinality({m \in TaskLineNumbers(doc) : m < n}) = k - 1

\* the stored records with the id
StoredWithId(id) == {r \in Stored : RecordAt(r).id = id}

\* C31: the task that an ingestion makes of a line holds the path of the
\* file as source_file and, as source_line, the number of the line in the
\* file, counted from 1 over all the lines, blank lines, headings and
\* skipped lines included.
C31_Provenance ==
  \A p \in Procs :
    (CreateReturned(p) /\ StoreWasEmpty) =>
      \A k \in 1..Cardinality(TaskLineNumbers(loc[p].doc)) :
        /\ StoredWithId(k) # {}
        /\ \A r \in StoredWithId(k) :
             /\ RecordAt(r).source_file = Some("plan.md")
             /\ RecordAt(r).source_line = Some(Kth(loc[p].doc, k))

\* C31, witness: a file whose seventh line is its second task line, after
\* a blank line, two headings and a skipped task line, has been ingested.
C31_Witness ==
  /\ CreateReturned(1)
  /\ StoreWasEmpty
  /\ loc[1].doc = Mixed
  /\ \E r \in StoredWithId(2) : RecordAt(r).source_line = Some(7)

\* C32: an ingestion makes one task of each task line with a title, in the
\* order of the file: open lines into the active container, checked lines
\* into the completed container; a task line without a title gives no
\* task, no write and takes no id; the counts it reports are the numbers
\* of open and of checked task lines with a title.
C32_OneTaskPerTaskLine ==
  \A p \in Procs :
    (CreateReturned(p) /\ StoreWasEmpty) =>
      LET doc == loc[p].doc
          K == Cardinality(TaskLineNumbers(doc))
      IN /\ StoredCount(files) = K
         /\ AllIds = 1..K
         /\ \A k \in 1..K : \A r \in StoredWithId(k) :
              /\ RecordAt(r).title = LineTitle(doc[Kth(doc, k)])
              /\ r.file = IF IsOpenTaskLine(doc, Kth(doc, k))
                          THEN active_file ELSE completed_file
         /\ Len(loc[p].tasks_created)
              = Cardinality({n \in TaskLineNumbers(doc) : IsOpenTaskLine(doc, n)})
         /\ Len(loc[p].tasks_completed)
              = Cardinality({n \in TaskLineNumbers(doc) : ~IsOpenTaskLine(doc, n)})
         /\ K = 0 => files = snap

\* C32, witness: a file of an open and a checked task line without a title
\* and a line of text has been ingested.
C32_Witness ==
  /\ CreateReturned(1)
  /\ StoreWasEmpty
  /\ loc[1].doc = NoTitle
  /\ loc[1].line_number = 3


\* C33: a stored task whose status is not completed has no completed
\* stamp; a task that update takes from completed back to another status
\* has none any more.
C33_OpenTaskHasNoStamp ==
  \A r \in Stored :
    RecordAt(r).status # "completed" => RecordAt(r).completed = None


\* the invocation p runs complete on a task that had the status completed
\* when it began
CompletesCompleted(p) ==
  /\ loc[p].cmd = "complete"
  /\ \E c \in Containers : WhereBefore(c, loc[p].task_id) # {}
  /\ \A c \in Containers : \A i \in WhereBefore(c, loc[p].task_id) :
       snap[c].tasks[i].status = "completed"

\* C34: complete(id) of a task that is completed writes no file, leaves
\* the record as it is, completed stamp included, and ends with the exit
\* code 0: the store after two complete(id) is the store after one.
C34_CompleteIdempotent ==
  \A p \in Procs :
    CompletesCompleted(p) =>
      /\ files = snap
      /\ tmp = [c \in Containers |-> Absent]
      /\ pc[p] \in {"find", "done"}
      /\ pc[p] = "done" => loc[p].exit = 0 /\ loc[p].err = "none"

\* C34, witness: complete has ended on a task that an earlier invocation
\* had moved to the completed container.
C34_Witness ==
  /\ pc[1] = "done"
  /\ CompletesCompleted(1)
  /\ \E i \in WhereBefore(completed_file, loc[1].task_id) :
       snap[completed_file].tasks[i].source_line = Some(1)
         /\ snap[completed_file].tasks[i].updated
              > snap[completed_file].tasks[i].created + 1


\* the places in the target of invocation p that hold the record it added
PlacesOf(p) ==
  {i \in 1..Len(files[loc[p].target].tasks) :
     files[loc[p].target].tasks[i] = loc[p].task}

\* C35: when two invocations add a task to the same container at the same
\* time and both return, the container holds both records.
C35_NoAddLost ==
  \A p, q \in Procs :
    (p # q /\ AddReturned(p) /\ AddReturned(q)
       /\ loc[p].target = loc[q].target)
    => \E i \in PlacesOf(p), j \in PlacesOf(q) : i # j


\* the invocation p has its id from get_next_id and is about to read the
\* file it adds to
JustAssigned(p) ==
  /\ loc[p].cmd = "add"
  /\ ~loc[p].given
  /\ pc[p] = "add_read"

\* C36: over invocations that run one after another, the id that
\* get_next_id assigns is higher than every id assigned before and is the
\* id of no task of the store: no id is assigned twice.
C36_IdsNeverReused ==
  \A p \in Procs :
    JustAssigned(p) =>
      /\ \A id \in everAdded : loc[p].task.id > id
      /\ loc[p].task.id \notin AllIds

\* C36, witness: an id is assigned after a task has been added and
\* another has been added and moved to the completed container.
C36_Witness ==
  /\ JustAssigned(1)
  /\ loc[1].task.id = 3
  /\ files[completed_file].tasks # <<>>
  /\ files[active_file].tasks # <<>>


\* the records of a list whose id is not the given one, in their order
Others(tasks, id) ==
  LET Other(t) == t.id # id
  IN SelectSeq(tasks, Other)

\* C37: an update that has run alone leaves every record with another id
\* as it was, in the container where it was, and the records with another
\* id of each container in the order they had.
C37_UpdateLeavesOthers ==
  \A p \in Procs : UpdateReturned(p) =>
    \A c \in Containers :
      Others(files[c].tasks, loc[p].task_id)
        = Others(snap[c].tasks, loc[p].task_id)

\* C37, witness: a task has been moved out of a container that holds
\* another task.
C37_Witness ==
  /\ MoveReturned(1)
  /\ Others(files[loc[1].source].tasks, loc[1].task_id) # <<>>


\* C38: add(task, target) appends the record after the records of the
\* target, which keep their content and order, and writes no other
\* container.
C38_AddTouchesTargetOnly ==
  \A p \in Procs : AnyAddReturned(p) =>
    /\ files[loc[p].target].tasks
         = snap[loc[p].target].tasks \o <<loc[p].task>>
    /\ \A c \in Containers \ {loc[p].target} : files[c] = snap[c]

\* C38, witness: a task has been added to a container that held a task,
\* while another container holds a task too.
C38_Witness ==
  /\ AnyAddReturned(1)
  /\ snap[loc[1].target].tasks # <<>>
  /\ \E c \in Containers \ {loc[1].target} : files[c].tasks # <<>>

====
